---- MODULE Spec2Model ----
(***************************************************************************)
(* Multi-host migration orchestration of virttest/utils_test/qemu.py:      *)
(* MigrationData, MultihostMigration.prepare_for_migration, migrate        *)
(* (migrate_wrap / wait_wrap), migrate_vms_src, cleanup and run.           *)
(*                                                                         *)
(* One process per host runs run(); its scenario starts one thread per     *)
(* attempt (migrate) and joins them.  The rendezvous service (SyncData /   *)
(* SyncListenServer of autotest.client.shared.syncdata) is not part of     *)
(* the source file; its behaviour is taken from section 4.1 of the         *)
(* specification.                                                          *)
(***************************************************************************)
EXTENDS Integers, Sequences, FiniteSets, TLC

\* ------------------------------------------------------------------ bounds
NumBystanders == 1      \* hosts of the run beyond the first two
NumVMs == 2             \* most VMs named in one attempt
NumAttempts == 2        \* most attempts started concurrently by one scenario
MaxPortOffset == 2      \* migration ports a destination VM may be given

AllHosts == 1..(2 + NumBystanders)
Attempts == 1..NumAttempts
Threads == Attempts \X AllHosts
NoThread == <<0, 0>>

\* ------------------------------------------------------------ MigrationData
\* MigrationData.__init__: source / destination flags from params["hostid"].
MD_source_flipped(hostid, srchost, dsthost) == hostid = dsthost

MD_source(hostid, srchost, dsthost) == hostid = srchost

MD_destination(hostid, srchost, dsthost) == hostid = dsthost

\* The role a (source, destination) flag pair stands for.
Role(s, d) ==
    IF s /\ d THEN "SourceAndDestination"
    ELSE IF s THEN "Source"
    ELSE IF d THEN "Destination"
    ELSE "Bystander"

VARIABLES
    cfg,        \* the run's parameters (self.params, params_append, scenario)
    md,         \* md[t]: the MigrationData of attempt thread t (NoMD: not built)
    pc,         \* pc[t]: position of attempt thread t = <<attempt, host>>
    site,       \* site[t]: which prepare_for_migration call t is in
    mig_error,  \* migrate_wrap's local mig_error (FALSE is None)
    orig,       \* the error first raised by a step of t's attempt
    exc,        \* the error t's thread ended with ("none": no error)
    vm_lock,    \* vm_lock[h]: the thread holding self.vm_lock on host h
    created,    \* created[t]: env_process.process calls completed by t
    vmPort,     \* vmPort[t][i]: migration_port of the i-th VM t created
    vm_ports,   \* mig_data.vm_ports of t (<<>> is None)
    nsync,      \* data exchanges t has called on its mig_id session
    wk,         \* wk[t][i]: state of migrate_vms_src's i-th worker task
    migArg,     \* migArg[t][i]: remote_port and cancel_delay given to vm.migrate
    hooks,      \* hooks[t]: hooks and checks t has run, in order
    arrived,    \* barrier and sync calls made: <<session, tag, round, host>>
    listed,     \* participants named in those calls: <<session, tag, host>>
    broken,     \* barrier instances that ended in a timeout
    msgs,       \* payloads contributed: <<session, round, host, payload>>
    server,     \* the master's SyncListenServer: "open" or "closed"
    rpc,        \* rpc[h]: position of run() on host h
    rexc,       \* rexc[h]: the error run() ended with on host h
    cur,        \* cur[h]: the attempt the scenario on host h is at
    cleaned,    \* cleaned[h]: cleanup() calls made on host h
    pinned,     \* pinned[t]: VMs whose monitor got the rdma-pin-all command
    mw,         \* one call of migrate_wait of MultihostMigrationFd / ...Exec
    mg,         \* one call of the module-level migrate()
    hp          \* a MemoryHotplugTest object: its session cache and its callers

vars == <<cfg, md, pc, site, mig_error, orig, exc, vm_lock, created,
          vmPort, vm_ports, nsync, wk, migArg, hooks, arrived, listed, broken,
          msgs, server, rpc, rexc, cur, cleaned, pinned, mw, mg, hp>>

\* ------------------------------------------------------------ configuration
\* transport: "base" is MultihostMigration, "exec" MultihostMigrationExec,
\* "rdma" MultihostMigrationRdma (which overrides migrate_vms_src only);
\* cancel: self.params has cancel_delay; append_cancel: params_append has it;
\* offline: host_mig_offline == "yes"; sync_vms: migration_sync_vms == "yes";
\* pause: paused_after_start_vm == "yes"; start_work / check_work: supplied.
ConfigSpace ==
    [transport : {"base", "exec"},
     hosts : {1..n : n \in 2..(2 + NumBystanders)},
     src : AllHosts, dst : AllHosts,
     nattempts : Attempts, nvms : 1..NumVMs,
     cancel : BOOLEAN, append_cancel : BOOLEAN, offline : BOOLEAN,
     sync_vms : BOOLEAN, pause : BOOLEAN,
     start_work : BOOLEAN, check_work : BOOLEAN]

\* Only whether a cancel_delay is set matters, so params_append is taken to
\* add one only where self.params has none; a scenario passes both hooks or
\* neither; the source and the destination are among the first two hosts.
ValidConfig(c) ==
    /\ c.src \in {1, 2} /\ c.dst \in {1, 2}
    /\ c.append_cancel => ~c.cancel
    /\ c.check_work = c.start_work

NoHooks(c) == ~c.start_work /\ ~c.check_work /\ ~c.pause

\* One attempt between two hosts of a run of two hosts.
TwoHostConfigs ==
    {c \in ConfigSpace :
        ValidConfig(c) /\ c.nattempts = 1 /\ c.src # c.dst /\ c.hosts = 1..2}

\* One attempt of one VM in a run with bystanders.
BystanderConfigs ==
    {c \in ConfigSpace :
        /\ ValidConfig(c) /\ c.nattempts = 1 /\ c.src = 1 /\ c.dst = 2
        /\ c.hosts # 1..2 /\ c.nvms = 1 /\ NoHooks(c)}

\* An attempt whose source host is also its destination host.
SameHostConfigs ==
    {c \in ConfigSpace :
        /\ ValidConfig(c) /\ c.nattempts = 1 /\ c.src = c.dst
        /\ c.hosts = 1..2 /\ c.nvms = 1 /\ NoHooks(c)}

\* Concurrent attempts (self.migrate, joined afterwards) between two hosts.
ConcurrentConfigs ==
    {c \in ConfigSpace :
        /\ ValidConfig(c) /\ c.nattempts = NumAttempts /\ c.src = 1 /\ c.dst = 2
        /\ c.hosts = 1..2 /\ c.nvms = 1 /\ NoHooks(c)
        /\ c.transport = "base" /\ ~c.offline /\ ~c.cancel /\ ~c.append_cancel}

\* Successive migrate_wait calls of a MultihostMigrationExec scenario
\* between the same two hosts.
SuccessiveConfigs ==
    {c \in ConfigSpace :
        /\ ValidConfig(c) /\ c.nattempts = NumAttempts /\ c.src = 1 /\ c.dst = 2
        /\ c.hosts = 1..2 /\ c.nvms = 1 /\ NoHooks(c) /\ c.transport = "exec"
        /\ ~c.cancel /\ ~c.append_cancel /\ ~c.sync_vms /\ ~c.offline}

\* A live migration of MultihostMigrationRdma between two hosts.
RdmaConfigs ==
    {[c EXCEPT !.transport = "rdma"] :
        c \in {c \in TwoHostConfigs :
                  /\ c.transport = "base" /\ NoHooks(c) /\ ~c.offline
                  /\ ~c.cancel /\ ~c.append_cancel /\ ~c.sync_vms
                  /\ c.src = 1}}

Host(t) == t[2]
Att(t) == t[1]
Active(t) == Att(t) <= cfg.nattempts /\ Host(t) \in cfg.hosts
ActiveThreads == {t \in Threads : Active(t)}
VMs == 1..cfg.nvms
NoMD == [built |-> FALSE]

\* master_id(): self.hosts[0]
master_id == 1

\* mig_data.hosts = [srchost, dsthost]
MD_hosts_run(srchost, dsthost) == cfg.hosts

MD_hosts(srchost, dsthost) == {srchost, dsthost}

is_src(t) == md[t].source
is_dst(t) == md[t].destination

\* mig_data.params.get("cancel_delay") is not None  (params + params_append)
md_cancel_delay == cfg.cancel \/ cfg.append_cancel
\* self.params.get("cancel_delay", None) is not None
self_cancel_delay == cfg.cancel

\* ------------------------------------------------- rendezvous barrier service
\* Sessions: an attempt's mig_id is its attempt number; the whole-run session
\* (session_id = self.hosts) and the migrate_wait key {'src','dst','port'}
\* shared by all attempts between the same hosts have numbers of their own.
HostsSession == 0
PortsSession == NumAttempts + 1

None == [kind |-> "None"]
VmsConfig(a) == [kind |-> "vms", att |-> a]
PortMap(f) == [kind |-> "ports", ports |-> f]

\* sync(): every participant named by the caller has called the same
\* (session, tag) instance, and none of them has timed out on it.
Complete(sess, tag, round, parts) ==
    /\ <<sess, tag, round>> \notin broken
    /\ \A p \in parts : <<sess, tag, round, p>> \in arrived

\* The contribution mapping a released caller receives, at participant h.
Contribution(sess, round, h) ==
    IF \E m \in msgs : m[1] = sess /\ m[2] = round /\ m[3] = h
    THEN (CHOOSE m \in msgs : m[1] = sess /\ m[2] = round /\ m[3] = h)[4]
    ELSE None

\* A call of sync by host h: it joins the instance, naming its participants
\* and contributing val (None for a pure waiter).  A call the server cannot
\* take (it is closed) can only end in a timeout.  brk: instances that the
\* same step saw time out.
SyncCallAfter(h, sess, tag, round, parts, val, brk) ==
    /\ arrived' = arrived \cup {<<sess, tag, round, h>>}
    /\ listed' = listed \cup {<<sess, tag, p>> : p \in parts}
    /\ msgs' = IF val = None THEN msgs ELSE msgs \cup {<<sess, round, h, val>>}
    /\ broken' = broken \cup brk \cup
                 (IF server = "closed" THEN {<<sess, tag, round>>} ELSE {})

SyncCall(h, sess, tag, round, parts, val) ==
    SyncCallAfter(h, sess, tag, round, parts, val, {})

\* ----------------------------------------------------------- variable groups
errVars == <<mig_error, orig, exc>>
vmVars == <<created, vmPort, vm_ports, wk, migArg>>
barVars == <<arrived, listed, broken, msgs>>
runVars == <<server, rpc, rexc, cur, cleaned>>
auxVars == <<pinned, mw, mg, hp>>
\* The state of the runs of MultihostMigration.run.
runState == <<cfg, md, pc, site, errVars, vm_lock, vmVars, nsync, hooks,
              barVars, runVars, pinned>>

\* --------------------------------------------------------------------- Init
\* No call of migrate_wait of a subclass, or of the module-level migrate(),
\* is being followed.
MwIdle == [pc |-> "idle"]
MgIdle == [pc |-> "idle"]

NumCallers == 2         \* threads that call get_session of one object
MaxSessions == 3        \* login sessions one run may open

\* MemoryHotplugTest.__init__: self.sessions = {}.  sessions is the list
\* self.sessions[vm.instance] of one VM (<<>> also when the key is missing:
\* get_session makes no difference), up the sessions that are responsive.
HpInit ==
    [sessions |-> <<>>, up |-> {}, closed |-> {}, opened |-> 0,
     call |-> [c \in 1..NumCallers |->
                  [pc |-> "idle", ret |-> 0, alone |-> TRUE]]]

InitWith(configs) ==
    /\ cfg \in configs
    /\ md = [t \in Threads |-> NoMD]
    /\ pc = [t \in Threads |-> "idle"]
    /\ site = [t \in Threads |-> "pre"]
    /\ mig_error = [t \in Threads |-> FALSE]
    /\ orig = [t \in Threads |-> "none"]
    /\ exc = [t \in Threads |-> "none"]
    /\ vm_lock = [h \in AllHosts |-> NoThread]
    /\ created = [t \in Threads |-> 0]
    /\ vmPort = [t \in Threads |-> [i \in 1..NumVMs |-> 0]]
    /\ vm_ports = [t \in Threads |-> None]
    /\ nsync = [t \in Threads |-> 0]
    /\ wk = [t \in Threads |-> [i \in 1..NumVMs |-> "none"]]
    /\ migArg = [t \in Threads |-> [i \in 1..NumVMs |-> None]]
    /\ hooks = [t \in Threads |-> <<>>]
    /\ arrived = {}
    /\ listed = {}
    /\ broken = {}
    /\ msgs = {}
    /\ server = "open"
    /\ rpc = [h \in AllHosts |-> IF h \in cfg.hosts THEN "scenario" ELSE "absent"]
    /\ rexc = [h \in AllHosts |-> "none"]
    /\ cur = [h \in AllHosts |-> 1]
    /\ cleaned = [h \in AllHosts |-> 0]
    /\ pinned = [t \in Threads |-> {}]

\* ------------------------------------------------ steps of an attempt thread
Goto(t, l) == pc' = [pc EXCEPT ![t] = l]

\* The thread function returns or raises e: the thread ends.
EndThread(t, e) ==
    /\ pc' = [pc EXCEPT ![t] = "ended"]
    /\ exc' = [exc EXCEPT ![t] = e]

\* The error the finally clause ends with when no test_finihed call is made
\* (line 864: raise exceptions.TestFail(mig_error)).
FinallyError(e) == "TestFail(True)"

\* Whether the finally clause calls the test_finihed barrier (line 858).
CleanupBarrier(err) == err /\ self_cancel_delay

\* An error e raised inside migrate_wrap's try body, lines 854-864: the
\* except clause sets mig_error and re-raises; the finally clause calls the
\* test_finihed barrier when self.params has a cancel_delay, and raises
\* TestFail(mig_error) otherwise.  brk: a barrier instance that timed out.
RaiseAfter(t, e, brk) ==
    /\ mig_error' = [mig_error EXCEPT ![t] = TRUE]
    /\ orig' = [orig EXCEPT ![t] = e]
    /\ IF CleanupBarrier(TRUE)
       THEN /\ Goto(t, "w_test_finihed")
            /\ SyncCallAfter(Host(t), Att(t), "test_finihed", 1, cfg.hosts,
                             None, brk)
            /\ UNCHANGED exc
       ELSE /\ EndThread(t, FinallyError(e))
            /\ broken' = broken \cup brk
            /\ UNCHANGED <<arrived, listed, msgs>>

Raise(t, e) == RaiseAfter(t, e, {})

\* The try body ends without an error (or returns): the finally clause
\* finds mig_error None.
TryDone(t) ==
    /\ UNCHANGED <<mig_error, orig>>
    /\ IF CleanupBarrier(FALSE)
       THEN /\ Goto(t, "w_test_finihed")
            /\ SyncCall(Host(t), Att(t), "test_finihed", 1, cfg.hosts, None)
            /\ UNCHANGED exc
       ELSE EndThread(t, "none") /\ UNCHANGED barVars

\* Positions at which a thread is blocked in a barrier or sync call.
TryWaits == {"w_vms", "w_ports", "w_prepare_VMS", "w_offline1", "w_offline2",
             "w_mig_finished"}
FinalWaits == {"w_test_finihed", "w_wait_wrap"}

WaitTag(t) ==
    CASE pc[t] \in {"w_vms", "w_ports"} -> "data"
      [] pc[t] = "w_prepare_VMS" -> "prepare_VMS"
      [] pc[t] = "w_offline1" -> "wait_for_offline_mig"
      [] pc[t] = "w_offline2" -> "wait2_for_offline_mig"
      [] pc[t] = "w_mig_finished" -> "mig_finished"
      [] OTHER -> "test_finihed"

WaitRound(t) == IF pc[t] \in {"w_vms", "w_ports"} THEN nsync[t] ELSE 1

\* The timeout of the mig_finished barrier call (lines 827, 841-842).
FinishTimeout(t) == IF ~is_src(t) THEN "self.mig_timeout" ELSE "60"

\* The participants of the mig_finished barrier (line 843).
FinishParts_self(t) == {Host(t)}

FinishParts(t) == md[t].hosts

\* The participants of the port exchange of _check_vms_source and
\* _check_vms_dest (lines 580, 596): mig_data.hosts.
PortsParts_self(t) == {Host(t)}

PortsParts(t) == md[t].hosts

\* _hosts_barrier(self.hosts, ...) against _hosts_barrier(mig_data.hosts, ...)
WaitParts(t) ==
    IF pc[t] \in {"w_offline1", "w_offline2", "w_test_finihed", "w_wait_wrap"}
    THEN cfg.hosts
    ELSE IF pc[t] = "w_mig_finished" THEN FinishParts(t)
    ELSE IF pc[t] = "w_ports" THEN PortsParts(t) ELSE md[t].hosts

Resolved(t) == Complete(Att(t), WaitTag(t), WaitRound(t), WaitParts(t))

\* The timeout thread t gave to the barrier or sync call it is blocked in.
SyncTimeout_none(t) == "None"

SyncTimeout(t) ==
    CASE pc[t] \in {"w_vms", "w_ports"} -> "240"
      [] pc[t] = "w_prepare_VMS" -> IF is_src(t) THEN "60" ELSE "120"
      [] pc[t] = "w_mig_finished" -> FinishTimeout(t)
      [] pc[t] = "w_wait_wrap" ->
            "self.login_timeout + self.mig_timeout + self.finish_timeout"
      [] OTHER -> "self.finish_timeout"

\* The branch of prepare_for_migration that loads the VM configuration
\* from the source: elif mig_data.is_dst() (line 666).
DstLoadsVms_never(s, d) == FALSE

DstLoadsVms(s, d) == ~s /\ d

\* prepare_for_migration, lines 649-691, up to its first blocking call.
PfmEntry(t, s, d) ==
    IF cfg.sync_vms /\ DstLoadsVms(s, d)
    THEN /\ Goto(t, "w_vms")
         /\ nsync' = [nsync EXCEPT ![t] = @ + 1]
         /\ SyncCall(Host(t), Att(t), "data", nsync[t] + 1,
                     MD_hosts(cfg.src, cfg.dst), None)
    ELSE /\ Goto(t, IF cfg.sync_vms /\ ~s THEN "check_vms" ELSE "pfm_acquire")
         /\ UNCHANGED <<nsync, barVars>>

\* Return from prepare_for_migration to its call site in migrate_wrap.
PfmReturn(t) ==
    IF site[t] = "pre"
    THEN Goto(t, "start_work") /\ UNCHANGED barVars
    ELSE /\ Goto(t, "w_offline2")
         /\ SyncCall(Host(t), Att(t), "wait2_for_offline_mig", 1, cfg.hosts, None)

\* MigrationData(self.params, srchost, dsthost, vms_name, params_append)
MigrationData(hostid, srchost, dsthost) ==
    [built |-> TRUE,
     source |-> MD_source(hostid, srchost, dsthost),
     destination |-> MD_destination(hostid, srchost, dsthost),
     src |-> srchost, dst |-> dsthost,
     hosts |-> MD_hosts(srchost, dsthost)]

\* lines 798-802: whether migrate_wrap prepares the VMs before the migrate
\* step, given is_src() and self.hostid == dsthost.
PreparesFirst_always(s, d) == s \/ d

PreparesFirst(s, d) == s \/ (d /\ ~cfg.offline)

\* migrate_wrap, lines 787-804: build mig_data, then prepare by role.
MigrateWrapEnter(t) ==
    /\ Active(t) /\ pc[t] = "start"
    /\ md' = [md EXCEPT ![t] = MigrationData(Host(t), cfg.src, cfg.dst)]
    /\ LET s == md'[t].source
           d == md'[t].destination
       IN IF PreparesFirst(s, Host(t) = cfg.dst)
          THEN PfmEntry(t, s, d) /\ UNCHANGED errVars
          ELSE IF Host(t) = cfg.dst
          THEN Goto(t, "start_work") /\ UNCHANGED <<nsync, barVars, errVars>>
          ELSE TryDone(t) /\ UNCHANGED nsync
    /\ UNCHANGED <<cfg, auxVars, site, vm_lock, vmVars, hooks, runVars>>

\* wait_wrap: a host that is neither source nor destination.
WaitWrapEnter(t) ==
    /\ Active(t) /\ pc[t] = "wait_wrap"
    /\ md' = [md EXCEPT ![t] = MigrationData(Host(t), cfg.src, cfg.dst)]
    /\ Goto(t, "w_wait_wrap")
    /\ SyncCall(Host(t), Att(t), "test_finihed", 1, cfg.hosts, None)
    /\ UNCHANGED <<cfg, auxVars, site, errVars, vm_lock, vmVars, nsync, hooks, runVars>>

\* self.vm_lock.acquire()
Acquire(t) ==
    /\ Active(t) /\ pc[t] = "pfm_acquire"
    /\ vm_lock[Host(t)] = NoThread
    /\ vm_lock' = [vm_lock EXCEPT ![Host(t)] = t]
    /\ Goto(t, "pfm_process")
    /\ UNCHANGED <<cfg, auxVars, md, site, errVars, vmVars, nsync, hooks, barVars, runVars>>

\* migration_mode of the call: None from the source's first call.
IncomingMode(t) == ~(site[t] = "pre" /\ is_src(t))

\* The code after env_process.process returned: release, _quick_check_vms,
\* and on the source of a synchronized-VMs run the configuration is sent.
AfterProcess(t) ==
    IF cfg.sync_vms /\ is_src(t)
    THEN /\ Goto(t, "w_vms")
         /\ nsync' = [nsync EXCEPT ![t] = @ + 1]
         /\ SyncCall(Host(t), Att(t), "data", nsync[t] + 1, md[t].hosts,
                     VmsConfig(Att(t)))
    ELSE Goto(t, "check_vms") /\ UNCHANGED <<nsync, barVars>>

\* env_process.process(...) under the lock, then vm_lock.release().
EnvProcessOk(t) ==
    /\ Active(t) /\ pc[t] = "pfm_process"
    /\ created' = [created EXCEPT ![t] = @ + 1]
    /\ \E off \in 1..MaxPortOffset :
         vmPort' = [vmPort EXCEPT ![t] =
                      [i \in 1..NumVMs |->
                         IF i \in VMs /\ IncomingMode(t) THEN off + i ELSE 0]]
    /\ vm_lock' = [vm_lock EXCEPT ![Host(t)] = NoThread]
    /\ AfterProcess(t)
    /\ UNCHANGED <<cfg, auxVars, md, site, errVars, vm_ports, wk, migArg, hooks, runVars>>

\* env_process.process (or, on a synchronized destination, monitor.info)
\* raises between acquire and release: no release is executed.
EnvProcessRaises(t) ==
    /\ Active(t) /\ pc[t] = "pfm_process"
    /\ Raise(t, "StepError")
    /\ UNCHANGED <<cfg, auxVars, md, site, vm_lock, vmVars, nsync, hooks, runVars>>

\* _quick_check_vms (verify_alive) or the source's monitor.info raises.
QuickCheckRaises(t) ==
    /\ Active(t) /\ pc[t] = "pfm_process"
    /\ created' = [created EXCEPT ![t] = @ + 1]
    /\ vm_lock' = [vm_lock EXCEPT ![Host(t)] = NoThread]
    /\ Raise(t, "StepError")
    /\ UNCHANGED <<cfg, auxVars, md, site, vmPort, vm_ports, wk, migArg, nsync, hooks,
                   runVars>>

\* The destination of a synchronized-VMs run registers the received VMs:
\* the loop of lines 671-676, which runs before vm_lock is acquired.
RegisterVms(t) ==
    /\ Active(t) /\ pc[t] = "pfm_register"
    /\ Goto(t, "pfm_acquire")
    /\ UNCHANGED <<cfg, auxVars, md, site, errVars, vm_lock, vmVars, nsync, hooks,
                   barVars, runVars>>

\* The port map _check_vms_dest builds: vm.name -> vm.migration_port.
DestPorts_reversed(t) == PortMap([i \in VMs |-> vmPort[t][cfg.nvms + 1 - i]])

DestPorts(t) == PortMap([i \in VMs |-> vmPort[t][i]])

\* The participant whose contribution _check_vms_source keeps.
PortsFrom_self(t) == md[t].src

PortsFrom(t) == md[t].dst

\* _check_vms: _check_vms_source on the source, _check_vms_dest otherwise,
\* of MultihostMigration ("base") or MultihostMigrationExec ("exec").
CheckVms(t) ==
    /\ Active(t) /\ pc[t] = "check_vms"
    /\ vm_ports' = [vm_ports EXCEPT ![t] =
                      IF ~is_src(t) /\ cfg.transport # "exec"
                      THEN DestPorts(t) ELSE @]
    /\ IF cfg.offline
       THEN PfmReturn(t) /\ UNCHANGED nsync
       ELSE IF cfg.transport # "exec"
       THEN /\ Goto(t, "w_ports")
            /\ nsync' = [nsync EXCEPT ![t] = @ + 1]
            /\ SyncCall(Host(t), Att(t), "data", nsync[t] + 1, PortsParts(t),
                        IF is_src(t) THEN None ELSE DestPorts(t))
       ELSE /\ Goto(t, "w_prepare_VMS")
            /\ SyncCall(Host(t), Att(t), "prepare_VMS", 1, md[t].hosts, None)
            /\ UNCHANGED nsync
    /\ UNCHANGED <<cfg, auxVars, md, site, errVars, vm_lock, created, vmPort, wk,
                   migArg, hooks, runVars>>

\* _check_vms_source: vm.wait_for_login raises.
CheckVmsRaises(t) ==
    /\ Active(t) /\ pc[t] = "check_vms" /\ is_src(t)
    /\ Raise(t, "StepError")
    /\ UNCHANGED <<cfg, auxVars, md, site, vm_lock, vmVars, nsync, hooks, runVars>>

\* The configuration exchange of prepare_for_migration resolves; the
\* destination unpickles the source's contribution.
Rel_vms(t) ==
    /\ Active(t) /\ pc[t] = "w_vms" /\ Resolved(t)
    /\ IF is_src(t)
       THEN Goto(t, "check_vms") /\ UNCHANGED <<errVars, barVars>>
       ELSE IF Contribution(Att(t), nsync[t], md[t].src).kind = "vms"
       THEN Goto(t, "pfm_register") /\ UNCHANGED <<errVars, barVars>>
       ELSE Raise(t, "TypeError")
    /\ UNCHANGED <<cfg, auxVars, md, site, vm_lock, vmVars, nsync, hooks, runVars>>

\* The port exchange resolves: the source keeps the destination's port map.
Rel_ports(t) ==
    /\ Active(t) /\ pc[t] = "w_ports" /\ Resolved(t)
    /\ vm_ports' = [vm_ports EXCEPT ![t] =
                      IF is_src(t)
                      THEN Contribution(Att(t), nsync[t], PortsFrom(t)) ELSE @]
    /\ PfmReturn(t)
    /\ UNCHANGED <<cfg, auxVars, md, site, errVars, vm_lock, created, vmPort, wk,
                   migArg, nsync, hooks, runVars>>

\* MultihostMigrationExec: the prepare_VMS barrier resolves.
Rel_prepare_VMS(t) ==
    /\ Active(t) /\ pc[t] = "w_prepare_VMS" /\ Resolved(t)
    /\ PfmReturn(t)
    /\ UNCHANGED <<cfg, auxVars, md, site, errVars, vm_lock, vmVars, nsync, hooks, runVars>>

\* Whether migrate_wrap skips the finish barrier and the post-check
\* (line 828: cancel_delay of self.params is not None).
SkipFinish == self_cancel_delay

\* The participants migrate_wrap names for the mig_finished barrier.
\* migrate_wrap, lines 827-844, from the end of migrate_vms to the first
\* barrier: nothing is waited for when self.params has a cancel_delay.
AfterMigrate(t) ==
    IF SkipFinish
    THEN TryDone(t)
    ELSE IF cfg.offline
    THEN /\ Goto(t, "w_offline1")
         /\ SyncCall(Host(t), Att(t), "wait_for_offline_mig", 1, cfg.hosts, None)
         /\ UNCHANGED errVars
    ELSE /\ Goto(t, "w_mig_finished")
         /\ SyncCall(Host(t), Att(t), "mig_finished", 1, FinishParts(t), None)
         /\ UNCHANGED errVars

\* migrate_wrap, lines 806-825: start_work, resume of paused VMs,
\* before_migration and the entry of migrate_vms.
\* lines 535-539: the VMs migrate_vms_src builds a task for.
multi_mig_first == {1}

multi_mig == VMs

\* utils_misc.parallel(multi_mig) is entered: every task is to run.
StartTasks(t) ==
    [wk EXCEPT ![t] =
        [i \in 1..NumVMs |-> IF i \in multi_mig THEN "ready" ELSE "none"]]

StartWorkAllowed_always == TRUE

\* line 808: pause != "yes"
StartWorkAllowed == ~cfg.pause

BeforeMigrate(t) ==
    /\ Active(t) /\ pc[t] = "start_work"
    /\ ~(is_src(t) /\ cfg.start_work /\ ~StartWorkAllowed)
    /\ hooks' = [hooks EXCEPT ![t] =
                   @ \o (IF is_src(t) /\ cfg.start_work
                         THEN <<"start_work">> ELSE <<>>)
                     \o <<"before_migration">>]
    /\ IF is_src(t) /\ cfg.transport = "rdma"
       THEN Goto(t, "rdma_pin") /\ UNCHANGED <<wk, errVars, barVars>>
       ELSE IF is_src(t)
       THEN /\ Goto(t, "workers")
            /\ wk' = StartTasks(t)
            /\ UNCHANGED <<errVars, barVars>>
       ELSE AfterMigrate(t) /\ UNCHANGED wk
    /\ UNCHANGED <<cfg, auxVars, md, site, vm_lock, created, vmPort, vm_ports,
                   migArg, nsync, runVars>>

\* start_work is supplied while the VM is paused: TestNAError.
StartWorkPaused(t) ==
    /\ Active(t) /\ pc[t] = "start_work"
    /\ is_src(t) /\ cfg.start_work /\ ~StartWorkAllowed
    /\ Raise(t, "TestNAError")
    /\ UNCHANGED <<cfg, auxVars, md, site, vm_lock, vmVars, nsync, hooks, runVars>>

\* start_work(mig_data) or vm.resume() raises.
StartWorkRaises(t) ==
    /\ Active(t) /\ pc[t] = "start_work"
    /\ is_src(t) /\ (cfg.start_work # cfg.pause)
    /\ hooks' = [hooks EXCEPT ![t] =
                   @ \o (IF cfg.start_work THEN <<"start_work">> ELSE <<>>)]
    /\ Raise(t, "StepError")
    /\ UNCHANGED <<cfg, auxVars, md, site, vm_lock, vmVars, nsync, runVars>>

\* The VMs whose monitor gets the command before utils_misc.parallel is
\* called: the loop of lines 1287-1292 of MultihostMigrationRdma.
PinLoop_first == {1}

PinLoop == VMs

\* The VM the loop is at.
PinNext(t) == CHOOSE i \in PinLoop \ pinned[t] :
                 \A j \in PinLoop \ pinned[t] : i <= j

\* MultihostMigrationRdma.migrate_vms_src, one turn of the loop:
\* vm.monitor.human_monitor_cmd(enable_rdma_pin_all); after the last VM
\* utils_misc.parallel is entered.
W_Capability(t) ==
    /\ Active(t) /\ pc[t] = "rdma_pin"
    /\ pinned' = [pinned EXCEPT ![t] = @ \cup {PinNext(t)}]
    /\ IF pinned'[t] = PinLoop
       THEN Goto(t, "workers") /\ wk' = StartTasks(t)
       ELSE UNCHANGED <<pc, wk>>
    /\ UNCHANGED <<cfg, mw, mg, hp, md, site, errVars, vm_lock, created, vmPort,
                   vm_ports, migArg, nsync, hooks, barVars, runVars>>

\* human_monitor_cmd raises.
W_CapabilityRaises(t) ==
    /\ Active(t) /\ pc[t] = "rdma_pin"
    /\ pinned' = [pinned EXCEPT ![t] = @ \cup {PinNext(t)}]
    /\ Raise(t, "StepError")
    /\ UNCHANGED <<cfg, mw, mg, hp, md, site, vm_lock, vmVars, nsync, hooks, runVars>>

\* mig_wrapper of migrate_vms_src: vm.migrate(...).  The base class reads
\* vm_ports[vm.name] first, which raises when vm_ports is None.
W_Migrate(t, i) ==
    /\ Active(t) /\ pc[t] = "workers" /\ i \in VMs /\ wk[t][i] = "ready"
    /\ IF cfg.transport # "exec" /\ vm_ports[t].kind # "ports"
       THEN /\ wk' = [wk EXCEPT ![t][i] = "failed"]
            /\ UNCHANGED migArg
       ELSE /\ migArg' = [migArg EXCEPT ![t][i] =
                            [kind |-> "migrate",
                             remote_port |-> IF cfg.transport # "exec"
                                             THEN vm_ports[t].ports[i] ELSE 0,
                             cancel_delay |-> md_cancel_delay]]
            /\ \E r \in {"migrated", "failed"} : wk' = [wk EXCEPT ![t][i] = r]
    /\ UNCHANGED <<cfg, auxVars, md, pc, site, errVars, vm_lock, created, vmPort,
                   vm_ports, nsync, hooks, barVars, runVars>>

\* mig_wrapper: post_migration (a copy to the destination host in
\* MultihostMigrationExec when host_mig_offline is set, else nothing).
W_Post(t, i) ==
    /\ Active(t) /\ pc[t] = "workers" /\ i \in VMs /\ wk[t][i] = "migrated"
    /\ \E r \in (IF cfg.transport = "exec" /\ cfg.offline
                 THEN {"done", "failed"} ELSE {"done"}) :
         wk' = [wk EXCEPT ![t][i] = r]
    /\ UNCHANGED <<cfg, auxVars, md, pc, site, errVars, vm_lock, created, vmPort,
                   vm_ports, migArg, nsync, hooks, barVars, runVars>>

\* utils_misc.parallel returns once every task has finished, and raises
\* if one of them raised.
ParallelDone(t) == \A i \in multi_mig : wk[t][i] \in {"done", "failed"}

ParallelRaises(t) == \E i \in multi_mig : wk[t][i] = "failed"

WorkersJoin(t) ==
    /\ Active(t) /\ pc[t] = "workers"
    /\ ParallelDone(t)
    /\ IF ParallelRaises(t)
       THEN Raise(t, "ParallelError")
       ELSE AfterMigrate(t)
    /\ UNCHANGED <<cfg, auxVars, md, site, vm_lock, vmVars, nsync, hooks, runVars>>

\* wait_for_offline_mig resolves: the destination prepares its VMs now.
Rel_offline1(t) ==
    /\ Active(t) /\ pc[t] = "w_offline1" /\ Resolved(t)
    /\ IF is_dst(t)
       THEN /\ site' = [site EXCEPT ![t] = "offline"]
            /\ PfmEntry(t, is_src(t), is_dst(t))
       ELSE /\ Goto(t, "w_offline2")
            /\ SyncCall(Host(t), Att(t), "wait2_for_offline_mig", 1, cfg.hosts, None)
            /\ UNCHANGED <<site, nsync>>
    /\ UNCHANGED <<cfg, auxVars, md, errVars, vm_lock, vmVars, hooks, runVars>>

\* wait2_for_offline_mig resolves: on to mig_finished.
Rel_offline2(t) ==
    /\ Active(t) /\ pc[t] = "w_offline2" /\ Resolved(t)
    /\ Goto(t, "w_mig_finished")
    /\ SyncCall(Host(t), Att(t), "mig_finished", 1, FinishParts(t), None)
    /\ UNCHANGED <<cfg, auxVars, md, site, errVars, vm_lock, vmVars, nsync, hooks, runVars>>

\* mig_finished resolves: the post-check starts.
Rel_mig_finished(t) ==
    /\ Active(t) /\ pc[t] = "w_mig_finished" /\ Resolved(t)
    /\ Goto(t, "post_check")
    /\ UNCHANGED <<cfg, auxVars, md, site, errVars, vm_lock, vmVars, nsync, hooks,
                   barVars, runVars>>

\* check_vms_dst on the destination, check_vms_src otherwise.
PostCheck(t) ==
    /\ Active(t) /\ pc[t] = "post_check"
    /\ hooks' = [hooks EXCEPT ![t] =
                   Append(@, IF is_dst(t) THEN "check_vms_dst" ELSE "check_vms_src")]
    /\ Goto(t, "check_work")
    /\ UNCHANGED <<cfg, auxVars, md, site, errVars, vm_lock, vmVars, nsync, barVars, runVars>>

\* check_vms_dst raises (guest not active, login failed).
PostCheckRaises(t) ==
    /\ Active(t) /\ pc[t] = "post_check" /\ is_dst(t)
    /\ hooks' = [hooks EXCEPT ![t] = Append(@, "check_vms_dst")]
    /\ Raise(t, "StepError")
    /\ UNCHANGED <<cfg, auxVars, md, site, vm_lock, vmVars, nsync, runVars>>

\* The check_work migrate_wrap gets: the scenario's through migrate, none
\* through migrate_wait of MultihostMigrationExec, which passes start_work
\* and params_append only (lines 1237-1240).
wrap_check_work == cfg.check_work /\ cfg.transport # "exec"

\* check_work(mig_data), when supplied; the try body ends.
CheckWork(t) ==
    /\ Active(t) /\ pc[t] = "check_work"
    /\ hooks' = [hooks EXCEPT ![t] =
                   IF wrap_check_work THEN Append(@, "check_work") ELSE @]
    /\ TryDone(t)
    /\ UNCHANGED <<cfg, auxVars, md, site, vm_lock, vmVars, nsync, runVars>>

\* check_work(mig_data) raises.
CheckWorkRaises(t) ==
    /\ Active(t) /\ pc[t] = "check_work" /\ wrap_check_work
    /\ hooks' = [hooks EXCEPT ![t] = Append(@, "check_work")]
    /\ Raise(t, "StepError")
    /\ UNCHANGED <<cfg, auxVars, md, site, vm_lock, vmVars, nsync, runVars>>

\* test_finihed resolves in the finally clause: the pending error goes on.
Rel_test_finihed(t) ==
    /\ Active(t) /\ pc[t] = "w_test_finihed" /\ Resolved(t)
    /\ EndThread(t, orig[t])
    /\ UNCHANGED <<cfg, auxVars, md, site, mig_error, orig, vm_lock, vmVars,
                   nsync, hooks, barVars, runVars>>

\* test_finihed resolves in wait_wrap.
Rel_wait_wrap(t) ==
    /\ Active(t) /\ pc[t] = "w_wait_wrap" /\ Resolved(t)
    /\ EndThread(t, "none")
    /\ UNCHANGED <<cfg, auxVars, md, site, mig_error, orig, vm_lock, vmVars,
                   nsync, hooks, barVars, runVars>>

\* A barrier or sync call ends in a timeout: some participant it names has
\* not called.  Inside the try body the error enters the except clause;
\* in the finally clause and in wait_wrap it ends the thread.
Timeout(t) ==
    /\ Active(t) /\ pc[t] \in TryWaits \cup FinalWaits /\ ~Resolved(t)
    /\ SyncTimeout(t) # "None"
    /\ LET key == <<Att(t), WaitTag(t), WaitRound(t)>>
       IN IF pc[t] \in TryWaits
          THEN RaiseAfter(t, "BarrierTimeout", {key})
          ELSE /\ EndThread(t, "BarrierTimeout")
               /\ broken' = broken \cup {key}
               /\ UNCHANGED <<mig_error, orig, arrived, listed, msgs>>
    /\ UNCHANGED <<cfg, auxVars, md, site, vm_lock, vmVars, nsync, hooks, runVars>>

\* ------------------------------------------------------------ run() per host
\* migrate(): migrate_wrap on the source and the destination host,
\* wait_wrap on every other host.
ThreadEntry(a, h) == IF h \in {cfg.src, cfg.dst} THEN "start" ELSE "wait_wrap"

\* What a host contributes to migrate_wait's exchange on the 'ports' key.
MigrateWaitPayload(h) == [kind |-> "migrate_wait", from |-> h, att |-> cur[h]]

\* migration_scenario of a MultihostMigration: self.migrate for every
\* attempt (the threads run concurrently), joined afterwards.
ScenarioMigrate(h) ==
    /\ rpc[h] = "scenario" /\ cfg.transport # "exec"
    /\ pc' = [t \in Threads |->
                IF Host(t) = h /\ Active(t) THEN ThreadEntry(Att(t), h) ELSE pc[t]]
    /\ rpc' = [rpc EXCEPT ![h] = "join"]
    /\ UNCHANGED <<cfg, auxVars, md, site, errVars, vm_lock, vmVars, nsync, hooks,
                   barVars, server, rexc, cur, cleaned>>

\* migration_scenario of a MultihostMigrationExec: migrate_wait per attempt,
\* which first exchanges ports or file names among all hosts of the run.
ScenarioMigrateWait(h) ==
    /\ rpc[h] = "scenario" /\ cfg.transport = "exec"
    /\ rpc' = [rpc EXCEPT ![h] = "w_ports"]
    /\ SyncCall(h, PortsSession, "ports", cur[h], cfg.hosts, MigrateWaitPayload(h))
    /\ UNCHANGED <<cfg, auxVars, md, pc, site, errVars, vm_lock, vmVars, nsync, hooks,
                   server, rexc, cur, cleaned>>

\* The exchange resolves: MultihostMigration.migrate_wait starts the thread.
Rel_ports_mw(h) ==
    /\ rpc[h] = "w_ports"
    /\ Complete(PortsSession, "ports", cur[h], cfg.hosts)
    /\ pc' = [pc EXCEPT ![<<cur[h], h>>] = ThreadEntry(cur[h], h)]
    /\ rpc' = [rpc EXCEPT ![h] = "join"]
    /\ UNCHANGED <<cfg, auxVars, md, site, errVars, vm_lock, vmVars, nsync, hooks,
                   barVars, server, rexc, cur, cleaned>>

\* clone_master is set on the host that runs the SyncListenServer.
clone_master(h) == h = master_id

\* The hosts run() names at the all_test_finished barrier: self.hosts.
RunParts_self(h) == {h}

RunParts(h) == cfg.hosts

\* postprocess_env() calls made on host h: cleanup() makes one, under
\* `if self.clone_master`.
postprocessed(h) == IF clone_master(h) THEN cleaned[h] ELSE 0

\* run()'s finally clause: cleanup() closes the server on the master and
\* post-processes the machines; run() then returns, or raises the error e.
RunEnd(h, e) ==
    /\ server' = IF clone_master(h) THEN "closed" ELSE server
    /\ cleaned' = [cleaned EXCEPT ![h] = @ + 1]
    /\ rexc' = [rexc EXCEPT ![h] = e]
    /\ rpc' = [rpc EXCEPT ![h] = IF e = "none" THEN "returned" ELSE "raised"]

\* join() of the attempt's thread: its error is raised in the scenario.
\* After the last attempt run() calls the all_test_finished barrier.
Join(h) ==
    /\ rpc[h] = "join" /\ pc[<<cur[h], h>>] = "ended"
    /\ IF exc[<<cur[h], h>>] # "none"
       THEN RunEnd(h, exc[<<cur[h], h>>]) /\ UNCHANGED <<cur, barVars>>
       ELSE IF cur[h] < cfg.nattempts
       THEN /\ cur' = [cur EXCEPT ![h] = @ + 1]
            /\ rpc' = [rpc EXCEPT ![h] =
                         IF cfg.transport # "exec" THEN "join" ELSE "scenario"]
            /\ UNCHANGED <<rexc, server, cleaned, barVars>>
       ELSE /\ rpc' = [rpc EXCEPT ![h] = "w_all_test_finished"]
            /\ SyncCall(h, HostsSession, "all_test_finished", 1, RunParts(h), None)
            /\ UNCHANGED <<rexc, server, cleaned, cur>>
    /\ UNCHANGED <<cfg, auxVars, md, pc, site, errVars, vm_lock, vmVars, nsync, hooks>>

\* all_test_finished resolves: run() returns through its finally clause.
Rel_all_test_finished(h) ==
    /\ rpc[h] = "w_all_test_finished"
    /\ Complete(HostsSession, "all_test_finished", 1, RunParts(h))
    /\ RunEnd(h, "none")
    /\ UNCHANGED <<cfg, auxVars, md, pc, site, errVars, vm_lock, vmVars, nsync, hooks,
                   barVars, cur>>

\* A barrier or sync call of run() or migrate_wait ends in a timeout.
RunTimeout(h) ==
    /\ rpc[h] \in {"w_ports", "w_all_test_finished"}
    /\ LET key == IF rpc[h] = "w_ports"
                  THEN <<PortsSession, "ports", cur[h]>>
                  ELSE <<HostsSession, "all_test_finished", 1>>
       IN /\ ~Complete(key[1], key[2], key[3],
                       IF rpc[h] = "w_ports" THEN cfg.hosts ELSE RunParts(h))
          /\ broken' = broken \cup {key}
    /\ RunEnd(h, "BarrierTimeout")
    /\ UNCHANGED <<cfg, auxVars, md, pc, site, errVars, vm_lock, vmVars, nsync, hooks,
                   arrived, listed, msgs, cur>>

\* ------------------------------------------------------------ specification
ThreadStep(t) ==
    \/ MigrateWrapEnter(t) \/ WaitWrapEnter(t)
    \/ Acquire(t) \/ EnvProcessOk(t) \/ EnvProcessRaises(t) \/ QuickCheckRaises(t)
    \/ RegisterVms(t) \/ CheckVms(t) \/ CheckVmsRaises(t)
    \/ Rel_vms(t) \/ Rel_ports(t) \/ Rel_prepare_VMS(t)
    \/ BeforeMigrate(t) \/ StartWorkPaused(t) \/ StartWorkRaises(t)
    \/ (\E i \in 1..NumVMs : W_Migrate(t, i) \/ W_Post(t, i))
    \/ WorkersJoin(t) \/ W_Capability(t) \/ W_CapabilityRaises(t)
    \/ Rel_offline1(t) \/ Rel_offline2(t) \/ Rel_mig_finished(t)
    \/ PostCheck(t) \/ PostCheckRaises(t) \/ CheckWork(t) \/ CheckWorkRaises(t)
    \/ Rel_test_finihed(t) \/ Rel_wait_wrap(t) \/ Timeout(t)

RunStep(h) ==
    \/ ScenarioMigrate(h) \/ ScenarioMigrateWait(h) \/ Rel_ports_mw(h)
    \/ Join(h) \/ Rel_all_test_finished(h) \/ RunTimeout(h)

Next ==
    \/ \E t \in Threads : ThreadStep(t)
    \/ \E h \in AllHosts : RunStep(h)

Configs ==
    TwoHostConfigs \cup BystanderConfigs \cup SameHostConfigs \cup RdmaConfigs

Init == InitWith(Configs) /\ mw = MwIdle /\ mg = MgIdle /\ hp = HpInit

Spec == Init /\ [][Next]_vars

\* The same, with every thread and every run() scheduled again and again:
\* no step that stays possible is put off forever.
SpecLive == Init /\ [][Next]_vars /\ WF_vars(Next)

\* The same, with scenarios of several attempts: concurrent ones on one
\* orchestrator, and successive ones.
InitConc ==
    /\ InitWith(Configs \cup ConcurrentConfigs \cup SuccessiveConfigs)
    /\ mw = MwIdle /\ mg = MgIdle /\ hp = HpInit

SpecConc == InitConc /\ [][Next]_vars

\* ------------------------- migrate_wait of MultihostMigrationFd and ...Exec
\* One call of migrate_wait on one host, from its entry to its exit.  The
\* attempt threads of the run stay as they are meanwhile.
srchost == 1
dsthost == 2

MaxScan == 2            \* ports find_free_port may look at from start_port on

last_port_init == 5199

\* The first port find_free_port is asked to look at.
ScanStart_same(last_port) == last_port

ScanStart(last_port) == last_port + 1

\* utils_misc.find_free_port(start_port, end_port): a free port of the
\* range, start_port or later.
find_free_port(start_port) == start_port..(start_port + MaxScan - 1)

\* The port lists a host can get from range(vms_count) turns of the loop.
RECURSIVE PortLists(_, _)
PortLists(last_port, count) ==
    IF count = 0 THEN {<<>>}
    ELSE UNION {{<<p>> \o rest : rest \in PortLists(p, count - 1)} :
                   p \in find_free_port(ScanStart(last_port))}

\* The host that looks for free ports: the source with descriptors passed,
\* the destination of a live migration with exec.
Allocates(cls, hostid, offline) ==
    \/ cls = "fd" /\ hostid = srchost
    \/ cls = "exec" /\ ~offline /\ hostid = dsthost

\* The host of the call accepts the connections (it is the source).
Accepting(m) == m.cls = "fd" /\ m.hostid = srchost

\* The host of the call connects to the source.
Connecting(m) == m.cls = "fd" /\ m.hostid # srchost

\* The hosts whose own migrate_wait call connects to the source: the test
\* of line 1043, hostid != srchost, on each host of the run.
Connects(h) == h # srchost

MaxRand == 2            \* strings data_factory.generate_random_string may give
MaxTries == 2           \* connection attempts that fit in _connect_to_server's timeout

\* A file: the directory it is in and its name ("mig_" + random + "." +
\* vm_name, given as <<random, VM>>).  "" is no directory part: os.path
\* takes such a name in the current directory.
Path(dir, fnam) == [dir |-> dir, fnam |-> fnam]

\* The files that may exist when the names are generated.
FileChoices == SUBSET {Path("tmpdir", <<1, 1>>), Path("", <<1, 1>>)}

\* The test of lines 1211-1212 on a generated name:
\* fnam not in mig_fnam.values() and not os.path.exists(fnam).
NameAccepted(m, fnam) ==
    /\ \A i \in 1..Len(m.mig_fnam) : m.mig_fnam[i] # Path("", fnam)
    /\ Path("", fnam) \notin m.files

\* migrate_wait(vms_name, srchost, dsthost, ...) is entered on host hostid
\* of a run of nhosts hosts.
MW_Call(cls, hostid, nhosts, vms_count, offline, files) ==
    /\ mw.pc = "idle"
    /\ cls = "fd" => ~offline
    /\ hostid <= nhosts
    /\ ~(cls = "exec" /\ offline) => files = {}
    /\ mw' = [pc |-> IF Allocates(cls, hostid, offline) THEN "alloc"
                     ELSE IF offline THEN "fnames" ELSE "sync",
              cls |-> cls, hostid |-> hostid, nhosts |-> nhosts,
              vms_count |-> vms_count,
              offline |-> offline, last_port |-> last_port_init,
              mig_ports |-> <<>>, files |-> files, mig_fnam |-> <<>>,
              sockets |-> <<>>, connected |-> <<>>, fdcloses |-> <<>>,
              tries |-> 0, lost |-> 0, conns |-> <<>>,
              fds |-> <<>>, called |-> FALSE, raised |-> FALSE]
    /\ UNCHANGED <<runState, mg, hp>>

\* last_port = utils_misc.find_free_port(last_port + 1, 6000);
\* mig_ports.append(last_port)
MW_FindFreePort ==
    /\ mw.pc = "alloc"
    /\ \E p \in find_free_port(ScanStart(mw.last_port)) :
          mw' = [mw EXCEPT !.last_port = p,
                           !.mig_ports = Append(@, p),
                           !.pc = IF Len(mw.mig_ports) + 1 = mw.vms_count
                                  THEN "sync" ELSE "alloc"]
    /\ UNCHANGED <<runState, mg, hp>>

\* One turn of `while True` for the next VM (lines 1207-1214) that ends in
\* break: fpath = os.path.join(self.test.tmpdir, fnam) is kept.
MW_GenerateName ==
    /\ mw.pc = "fnames"
    /\ \E r \in 1..MaxRand :
          LET fnam == <<r, Len(mw.mig_fnam) + 1>>
          IN  /\ NameAccepted(mw, fnam)
              /\ mw' = [mw EXCEPT
                          !.mig_fnam = Append(@, Path("tmpdir", fnam)),
                          !.pc = IF Len(mw.mig_fnam) + 1 = mw.vms_count
                                 THEN "sync" ELSE @]
    /\ UNCHANGED <<runState, mg, hp>>

\* What follows sync.sync in the class of the call.
AfterSync(m) ==
    IF Connecting(m) THEN "connect"
    ELSE IF Accepting(m) THEN "listen" ELSE "call"

\* mig_ports = sync.sync(mig_ports, timeout=120)[host]: the list of the
\* host that looked for the ports; with offline exec the file names.
MW_Sync ==
    /\ mw.pc = "sync"
    /\ \E ports \in IF mw.offline THEN {<<>>}
                     ELSE PortLists(last_port_init, mw.vms_count) :
          /\ Allocates(mw.cls, mw.hostid, mw.offline) => ports = mw.mig_ports
          /\ mw' = [mw EXCEPT !.mig_ports = ports, !.pc = AfterSync(mw)]
    /\ UNCHANGED <<runState, mg, hp>>

\* sync.sync raises (timeout): nothing is open yet.
MW_SyncRaises ==
    /\ mw.pc = "sync"
    /\ mw' = [mw EXCEPT !.pc = "done", !.raised = TRUE]
    /\ UNCHANGED <<runState, mg, hp>>

\* A socket object joins the list sockets; isconn: it is connected (or
\* listening).
AddSocket(m, isconn, next) ==
    [m EXCEPT !.sockets = Append(@, "open"),
              !.connected = Append(@, isconn),
              !.fdcloses = Append(@, 0),
              !.tries = 0,
              !.pc = IF Len(m.sockets) + 1 < Len(m.mig_ports) THEN @ ELSE next]

\* _connect_to_server: `while endtime > time.time()`.
TryOpen(tries) == tries < MaxTries

\* _connect_to_server, one turn of its loop: a new socket takes the place of
\* the one of the turn before; connect succeeds (break, return sock), is
\* refused (sleep, next turn), or fails otherwise (raise).  Nothing closes
\* the socket of a turn that failed: it stays open unless the runtime frees
\* it when its last reference goes.
MW_ConnectTry ==
    /\ mw.pc = "connect" /\ TryOpen(mw.tries)
    /\ \E o \in {"connected", "refused", "error"}, freed \in BOOLEAN :
          LET dropped == (IF mw.tries > 0 THEN 1 ELSE 0)
                         + (IF o = "error" THEN 1 ELSE 0)
              m == [mw EXCEPT !.lost = IF freed THEN @ ELSE @ + dropped]
          IN  CASE o = "connected" -> mw' = AddSocket(m, TRUE, "call")
                [] o = "refused" -> mw' = [m EXCEPT !.tries = @ + 1]
                [] OTHER -> mw' = [m EXCEPT !.pc = "done", !.raised = TRUE]
    /\ UNCHANGED <<runState, mg, hp>>

\* The loop of _connect_to_server ends with every attempt refused:
\* return sock, the socket of the last turn.
MW_ConnectExpired ==
    /\ mw.pc = "connect" /\ ~TryOpen(mw.tries)
    /\ mw' = AddSocket(mw, FALSE, "call")
    /\ UNCHANGED <<runState, mg, hp>>

\* sockets.append(self._create_server(mig_port)): one turn of the loop.
MW_OpenSocket ==
    /\ mw.pc = "listen"
    /\ mw' = AddSocket(mw, TRUE, "accept")
    /\ UNCHANGED <<runState, mg, hp>>

\* _create_server raises: the loop is before the try statement, the
\* sockets opened by the turns before are left as they are.
MW_OpenSocketRaises ==
    /\ mw.pc = "listen"
    /\ mw' = [mw EXCEPT !.pc = "done", !.raised = TRUE]
    /\ UNCHANGED <<runState, mg, hp>>

\* The descriptors of the sockets are closed once more.
CloseFds(m) ==
    [m EXCEPT !.sockets = [i \in 1..Len(m.sockets) |-> "closed"],
              !.fdcloses = [i \in 1..Len(m.sockets) |-> m.fdcloses[i] + 1]]

\* finally: for s in sockets: s.close()
CloseSockets(m) == CloseFds(m)

\* for conn in conns: conn.close()
CloseConns(m) == [i \in 1..Len(m.conns) |-> [m.conns[i] EXCEPT !.open = FALSE]]

\* conns.append(s.accept()[0]): the connection of one of the hosts that
\* connect to the port.
MW_Accept ==
    /\ mw.pc = "accept"
    /\ \E peer \in {h \in 1..mw.nhosts : Connects(h)} :
          mw' = [mw EXCEPT
                   !.conns = Append(@, [open |-> TRUE, cloexec |-> FALSE,
                                        peer |-> peer]),
                   !.pc = IF Len(mw.conns) + 1 < Len(mw.sockets) THEN @
                          ELSE "cloexec"]
    /\ UNCHANGED <<runState, mg, hp>>

\* s.accept() raises socket.timeout: the finally clause runs.
MW_AcceptRaises ==
    /\ mw.pc = "accept"
    /\ mw' = [CloseSockets(mw) EXCEPT !.pc = "done", !.raised = TRUE]
    /\ UNCHANGED <<runState, mg, hp>>

\* The descriptors the loop of lines 1076-1079 goes through: fds.values().
CloexecLoop_first(m) == {1}

CloexecLoop(m) == 1..Len(m.conns)

\* for fd in fds.values(): flags |= fcntl.FD_CLOEXEC; fcntl(fd, F_SETFD, flags)
MW_Cloexec ==
    /\ mw.pc = "cloexec"
    /\ LET todo == {i \in CloexecLoop(mw) : ~mw.conns[i].cloexec}
           i == CHOOSE i \in todo : \A j \in todo : i <= j
       IN mw' = [mw EXCEPT !.conns[i].cloexec = TRUE,
                           !.pc = IF todo = {i} THEN "call" ELSE @]
    /\ UNCHANGED <<runState, mg, hp>>

\* super().migrate_wait(vms_name, srchost, dsthost, start_work=start_work,
\* params_append=fds) is invoked: fds holds the descriptors as they are now.
MW_Super ==
    /\ mw.pc = "call"
    /\ mw' = [mw EXCEPT !.pc = "in_super", !.called = TRUE,
                        !.fds = IF Accepting(mw) THEN mw.conns ELSE <<>>]
    /\ UNCHANGED <<runState, mg, hp>>

\* MultihostMigrationFd._check_vms_dest, run by the wrapped migrate_wait on
\* the destination host: os.close(vm.params.get("migration_fd")) for every
\* VM, the descriptors being those of the connected sockets.
CheckVmsDestCloses(m) ==
    IF Connecting(m) /\ m.hostid = dsthost THEN CloseFds(m) ELSE m

\* The wrapped migrate_wait returns: the accepting side closes conns, then
\* the finally clause closes the sockets.
MW_SuperReturns ==
    /\ mw.pc = "in_super"
    /\ mw' = [CloseSockets(CheckVmsDestCloses(mw)) EXCEPT
                 !.pc = "done", !.conns = CloseConns(mw)]
    /\ UNCHANGED <<runState, mg, hp>>

\* The wrapped migrate_wait raises, before or after _check_vms_dest: only
\* the finally clause runs.
MW_SuperRaises ==
    /\ mw.pc = "in_super"
    /\ \E m \in {mw, CheckVmsDestCloses(mw)} :
          mw' = [CloseSockets(m) EXCEPT !.pc = "done", !.raised = TRUE]
    /\ UNCHANGED <<runState, mg, hp>>

NextWait ==
    \/ \E cls \in {"fd", "exec"}, hostid \in 1..3, nhosts \in 2..3,
          vms_count \in 1..NumVMs, offline \in BOOLEAN, files \in FileChoices :
          MW_Call(cls, hostid, nhosts, vms_count, offline, files)
    \/ MW_FindFreePort \/ MW_GenerateName
    \/ MW_Sync \/ MW_SyncRaises
    \/ MW_ConnectTry \/ MW_ConnectExpired
    \/ MW_OpenSocket \/ MW_OpenSocketRaises
    \/ MW_Accept \/ MW_AcceptRaises
    \/ MW_Cloexec
    \/ MW_Super \/ MW_SuperReturns \/ MW_SuperRaises

\* The run the call belongs to: two hosts, descriptors or exec being the
\* business of migrate_wait alone.
WaitConfigs == {c \in RdmaConfigs : c.nvms = NumVMs}

InitWait == InitWith(WaitConfigs) /\ mw = MwIdle /\ mg = MgIdle /\ hp = HpInit

SpecWait == InitWait /\ [][NextWait]_vars

\* ------------------------------------------------- module-level migrate()
\* One call of migrate(vm, env, ...) with a tcp protocol.  local stands for
\* dest_host == 'localhost', env for env is not None.  mig is the status
\* the monitor of the source VM reports for the migration, pending is what
\* the try statement is leaving with when its finally clause starts.
MaxPolls == 3           \* polls that fit in one window of utils_misc.wait_for

Statuses == {"active", "completed", "failed", "cancelled"}

\* utils_misc.wait_for(func, timeout, first, step): func is called again
\* while the window has not expired.
WindowOpen(polls) == polls < MaxPolls

\* save1 and save2 have a value when the finally clause reads them.
SavesBound(m) == m.saved

\* dest_vm has a value when mig_finished reads it.
DestVmBound(m) == m.local

\* dest_vm = vm.clone(); dest_vm.create(migration_mode=mig_protocol, ...)
MG_Call(mig_cancel, offline, stable_check, clean, local, env) ==
    /\ mg.pc = "idle"
    /\ mg' = [pc |-> "migrate", mig_cancel |-> mig_cancel, offline |-> offline,
              stable_check |-> stable_check, clean |-> clean, local |-> local,
              env |-> env, cmds |-> <<>>, vm |-> "running",
              dest_vm |-> IF local THEN "incoming" ELSE "remote",
              mig |-> "none", polls |-> 0, died |-> FALSE,
              cancelled |-> FALSE, saved |-> FALSE, registered |-> FALSE,
              pending |-> "none", result |-> "none"]
    /\ UNCHANGED <<runState, mw, hp>>

\* except Exception: if dest_host == 'localhost': dest_vm.destroy(); raise
Except(m, e) ==
    [m EXCEPT !.pc = "finally", !.pending = e,
              !.dest_vm = IF m.local THEN "destroyed" ELSE @]

\* if offline: vm.pause(); vm.monitor.migrate(uri)
MG_Migrate ==
    /\ mg.pc = "migrate"
    /\ mg' = [mg EXCEPT !.vm = IF mg.offline THEN "paused" ELSE @,
                        !.cmds = Append(@, "migrate"),
                        !.mig = "active",
                        !.pc = IF mg.mig_cancel THEN "cancel" ELSE "wait"]
    /\ UNCHANGED <<runState, mw, hp>>

\* vm.monitor.migrate(uri) raises.
MG_MigrateRaises ==
    /\ mg.pc = "migrate"
    /\ mg' = Except([mg EXCEPT !.vm = IF mg.offline THEN "paused" ELSE @],
                    "MonitorError")
    /\ UNCHANGED <<runState, mw, hp>>

\* The hypervisor ends the migration; the call is somewhere in its waits.
MG_Progress ==
    /\ mg.pc \in {"cancel", "poll_cancel", "wait"} /\ mg.mig = "active"
    /\ \E o \in Statuses \ {"active"} : mg' = [mg EXCEPT !.mig = o]
    /\ UNCHANGED <<runState, mw, hp>>

\* time.sleep(2); vm.monitor.cmd("migrate_cancel")
MG_Cancel ==
    /\ mg.pc = "cancel"
    /\ mg' = [mg EXCEPT !.cmds = Append(@, "migrate_cancel"),
                        !.pc = "poll_cancel"]
    /\ UNCHANGED <<runState, mw, hp>>

\* mig_cancelled(): the status is cancelled (or canceled).
mig_cancelled(o) == o = "cancelled"

\* if not utils_misc.wait_for(mig_cancelled, 60, 2, 2, ...): the wait
\* returned nothing.
CancelFail_never(seen) == FALSE

CancelFail(seen) == ~seen

\* What follows the wait for the cancelled state: raise TestFail("Failed
\* to cancel migration"), or vm.resume() if offline,
\* dest_vm.destroy(gracefully=False) if local, return vm.
AfterCancelWait(m, seen) ==
    IF CancelFail(seen) THEN Except(m, "TestFail")
    ELSE [m EXCEPT !.vm = "running",
                   !.dest_vm = IF m.local THEN "destroyed" ELSE @,
                   !.pending = "return vm",
                   !.pc = "finally"]

\* One call of mig_cancelled by utils_misc.wait_for.
MG_PollCancel ==
    /\ mg.pc = "poll_cancel" /\ WindowOpen(mg.polls)
    /\ IF mig_cancelled(mg.mig)
       THEN mg' = AfterCancelWait([mg EXCEPT !.cancelled = TRUE,
                                             !.polls = @ + 1], TRUE)
       ELSE mg' = [mg EXCEPT !.polls = @ + 1]
    /\ UNCHANGED <<runState, mw, hp>>

\* The window of 60 seconds expires: wait_for returns None.
MG_CancelExpired ==
    /\ mg.pc = "poll_cancel" /\ ~WindowOpen(mg.polls)
    /\ mg' = AfterCancelWait(mg, FALSE)
    /\ UNCHANGED <<runState, mw, hp>>

\* mig_finished(): if dest_vm.is_dead(): raise ...;
\* if not offline and vm.is_dead(): raise ...
PeerDied_never(m, dest_dead, vm_dead) == FALSE

PeerDied(m, dest_dead, vm_dead) == dest_dead \/ (~m.offline /\ vm_dead)

\* One call of mig_finished by utils_misc.wait_for in wait_for_migration;
\* dest_dead and vm_dead are what is_dead() answers, landed the state the
\* clone is in when the migration is over.
MG_PollFinished ==
    /\ mg.pc = "wait" /\ WindowOpen(mg.polls)
    /\ \E dest_dead, vm_dead \in BOOLEAN, landed \in {"running", "paused"} :
          LET m == [mg EXCEPT !.polls = @ + 1]
              d == [m EXCEPT !.died = @ \/ dest_dead \/ (~mg.offline /\ vm_dead)]
          IN  IF ~DestVmBound(mg)
              THEN /\ ~dest_dead /\ ~vm_dead /\ landed = "running"
                   /\ mg' = Except(m, "NameError")
              ELSE IF PeerDied(mg, dest_dead, vm_dead)
              THEN landed = "running" /\ mg' = Except(d, "TestFail")
              ELSE IF mg.mig # "active"
              THEN mg' = [d EXCEPT !.pc = "finished", !.dest_vm = landed]
              ELSE landed = "running" /\ mg' = d
    /\ UNCHANGED <<runState, mw, hp>>

\* The window of mig_timeout expires:
\* raise TestFail("Timeout expired while waiting for migration to finish").
MG_WaitExpired ==
    /\ mg.pc = "wait" /\ ~WindowOpen(mg.polls)
    /\ mg' = Except(mg, "TestFail")
    /\ UNCHANGED <<runState, mw, hp>>

\* After wait_for_migration(): with stable_check on the same host the two
\* state files are written and compared; dest_vm.resume() if offline.
MG_Finished ==
    /\ mg.pc = "finished"
    /\ \E same \in BOOLEAN :
          LET m == [mg EXCEPT !.saved = mg.local /\ mg.stable_check]
          IN  IF m.saved /\ ~same
              THEN mg' = Except(m, "TestFail")
              ELSE /\ same
                   /\ mg' = [m EXCEPT !.pc = "finally",
                                      !.dest_vm = IF m.local /\ m.offline
                                                  THEN "running" ELSE @]
    /\ UNCHANGED <<runState, mw, hp>>

\* finally: if (dest_host == 'localhost') and stable_check and clean:
\* os.path.isfile(save1) ...; then the try statement is left as pending says.
MG_Finally ==
    /\ mg.pc = "finally"
    /\ IF mg.local /\ mg.stable_check /\ mg.clean /\ ~SavesBound(mg)
       THEN mg' = [mg EXCEPT !.pc = "done", !.result = "UnboundLocalError"]
       ELSE IF mg.pending = "none"
       THEN mg' = [mg EXCEPT !.pc = "report"]
       ELSE mg' = [mg EXCEPT !.pc = "done", !.result = mg.pending]
    /\ UNCHANGED <<runState, mw, hp>>

\* mig_succeeded(): the status is completed.
mig_succeeded_any(o) == o # "failed"

mig_succeeded(o) == o = "completed"

\* if dest_vm.monitor.verify_status("paused"): dest_vm.resume()
ResumeIfPaused_not(d) == d

ResumeIfPaused(d) == IF d = "paused" THEN "running" ELSE d

\* vm.destroy(gracefully=False) and env.register_vm come after the report
\* of the status, whose raise statements leave the function.
KillsSource_always(o) == TRUE

KillsSource(o) == mig_succeeded(o)

\* Report migration status; resume the clone; vm.destroy(gracefully=False);
\* env.register_vm(vm.name, dest_vm); return dest_vm or vm.
MG_Report ==
    /\ mg.pc = "report"
    /\ mg' = [mg EXCEPT
                !.pc = "done",
                !.vm = IF KillsSource(mg.mig) THEN "dead" ELSE @,
                !.dest_vm = IF mig_succeeded(mg.mig) /\ mg.local
                            THEN ResumeIfPaused(@) ELSE @,
                !.registered = KillsSource(mg.mig) /\ mg.local /\ mg.env,
                !.result = IF ~mig_succeeded(mg.mig) THEN "TestFail"
                           ELSE IF mg.local THEN "return dest_vm"
                           ELSE "return vm"]
    /\ UNCHANGED <<runState, mw, hp>>

NextMigrate ==
    \/ \E mig_cancel, offline, stable_check, clean, local, env \in BOOLEAN :
          MG_Call(mig_cancel, offline, stable_check, clean, local, env)
    \/ MG_Migrate \/ MG_MigrateRaises
    \/ MG_Progress
    \/ MG_Cancel \/ MG_PollCancel \/ MG_CancelExpired
    \/ MG_PollFinished \/ MG_WaitExpired
    \/ MG_Finished
    \/ MG_Finally
    \/ MG_Report

SpecMigrate == InitWait /\ [][NextMigrate]_vars

\* ------------------------------------------- MemoryHotplugTest.get_session
\* list.remove(session): the first element equal to it goes.
Remove(list, x) == SelectSeq(list, LAMBDA y : y # x)

\* for session in self.sessions[key]: the iterator is at position i of the
\* list as it is now; a responsive session is returned, any other is closed
\* and removed from the list under the iterator.  found = 0: the loop ended.
RECURSIVE Scan(_, _, _)
Scan(list, up, i) ==
    IF i > Len(list) THEN [found |-> 0, list |-> list]
    ELSE IF list[i] \in up THEN [found |-> list[i], list |-> list]
    ELSE Scan(Remove(list, list[i]), up, i + 1)

\* The elements of a list.
Elems(list) == {list[i] : i \in 1..Len(list)}

\* A session stops answering.
HP_Unresponsive ==
    /\ \E x \in hp.up : hp' = [hp EXCEPT !.up = @ \ {x}]
    /\ UNCHANGED <<runState, mw, mg>>

\* get_session(vm) up to its return of a cached session or to its call of
\* vm.wait_for_login.  alone: no other call is under way.
HP_GetSession(c) ==
    /\ hp.call[c].pc = "idle"
    /\ LET r == Scan(hp.sessions, hp.up, 1)
           alone == \A d \in 1..NumCallers : hp.call[d].pc = "idle"
       IN hp' = [hp EXCEPT
                   !.sessions = r.list,
                   !.closed = @ \cup (Elems(hp.sessions) \ Elems(r.list)),
                   !.call = [d \in 1..NumCallers |->
                               IF d = c
                               THEN [pc |-> IF r.found = 0 THEN "login"
                                            ELSE "idle",
                                     ret |-> r.found, alone |-> alone]
                               ELSE [hp.call[d] EXCEPT
                                       !.alone = @ /\ hp.call[d].pc = "idle"]]]
    /\ UNCHANGED <<runState, mw, mg>>

\* session = vm.wait_for_login(timeout=login_timeout);
\* self.sessions[key].append(session); return session
HP_Login(c) ==
    /\ hp.call[c].pc = "login"
    /\ hp.opened < MaxSessions
    /\ LET new == hp.opened + 1
       IN hp' = [hp EXCEPT !.opened = new,
                           !.up = @ \cup {new},
                           !.sessions = Append(@, new),
                           !.call[c].pc = "idle",
                           !.call[c].ret = new]
    /\ UNCHANGED <<runState, mw, mg>>

\* vm.wait_for_login raises.
HP_LoginRaises(c) ==
    /\ hp.call[c].pc = "login"
    /\ hp' = [hp EXCEPT !.call[c].pc = "idle", !.call[c].ret = 0]
    /\ UNCHANGED <<runState, mw, mg>>

NextSessions ==
    \/ HP_Unresponsive
    \/ \E c \in 1..NumCallers :
          HP_GetSession(c) \/ HP_Login(c) \/ HP_LoginRaises(c)

SpecSessions == InitWait /\ [][NextSessions]_vars

\* -------------------------------------------------------------- properties
S(a) == <<a, cfg.src>>
D(a) == <<a, cfg.dst>>
Started == 1..cfg.nattempts
Ended(t) == pc[t] = "ended"
Called(a, tag, h) == \E r \in 1..2 : <<a, tag, r, h>> \in arrived
Ran(t, hook) == \E k \in 1..Len(hooks[t]) : hooks[t][k] = hook

\* The thread has passed the mig_finished barrier: its post-check has
\* started or is about to.
PastFinish(t) ==
    \/ pc[t] \in {"post_check", "check_work"}
    \/ Ran(t, "check_vms_dst") \/ Ran(t, "check_vms_src")

\* migrate_vms_src has started its tasks and every one of them has ended.
WorkersReturned(t) ==
    /\ pc[t] # "workers"
    /\ \A i \in VMs : wk[t][i] \in {"done", "failed"}

\* C1: in an attempt without cancel delay the destination's post-check
\* never starts before every worker task of the source's migrate_vms_src
\* has returned, and the source's post-check never starts before the
\* destination has called the mig_finished barrier.
C1_FinishBarrierOrders ==
    \A a \in Started :
        /\ PastFinish(D(a)) => WorkersReturned(S(a))
        /\ PastFinish(S(a)) => Called(a, "mig_finished", cfg.dst)

C1_Witness ==
    /\ cfg.src # cfg.dst /\ ~self_cancel_delay
    /\ Ran(D(1), "check_vms_dst") /\ Ran(S(1), "check_vms_src")

\* C2 (as claimed): if the source thread raised before it called the
\* mig_finished barrier, the destination thread of the attempt has not
\* ended without an error.
C2_DestNeverSucceedsSilently ==
    \A a \in Started :
        (mig_error[S(a)] /\ ~Called(a, "mig_finished", cfg.src))
            => ~(Ended(D(a)) /\ exc[D(a)] = "none")

\* C3 (as claimed): a source or destination thread that has ended has
\* called the test_finihed barrier.
C3_CleanupBarrierAlways ==
    \A a \in Started : \A t \in {S(a), D(a)} :
        Ended(t) => Called(a, "test_finihed", Host(t))

\* C4 (as claimed): a thread whose attempt raised error E ends with E.
C4_SameErrorReraised ==
    \A a \in Started : \A t \in {S(a), D(a)} :
        (Ended(t) /\ mig_error[t]) => exc[t] = orig[t]

\* C5 (as claimed): while a started attempt thread has not ended, some
\* attempt thread can still take a step, so no thread waits forever.
C5_ThreadsTerminate ==
    (\E t \in Threads : pc[t] \notin {"idle", "ended"})
        => ENABLED (\E t \in Threads : ThreadStep(t))

\* The thread is inside the VM-creation region: in env_process.process or
\* in the loop of env.register_vm calls.
InVmCreation(t) == pc[t] \in {"pfm_process", "pfm_register"}

\* C6 (as claimed): on one orchestrator no two attempts are inside VM
\* creation or VM registration at the same time.
C6_VmCreationExclusive ==
    \A t \in Threads : \A u \in Threads \ {t} :
        (Host(u) = Host(t) /\ InVmCreation(t)) => ~InVmCreation(u)

\* The run's parameters of the two-host scenario: source and destination
\* only, one VM, MultihostMigration itself, no cancel delay, a live
\* migration, and no start_work given together with paused VMs.
TwoHostDirect ==
    /\ Cardinality(cfg.hosts) = 2 /\ cfg.src # cfg.dst
    /\ cfg.nvms = 1 /\ cfg.transport = "base"
    /\ ~md_cancel_delay /\ ~cfg.offline
    /\ ~(cfg.start_work /\ cfg.pause)

\* Nothing failed so far in the environment: no barrier or sync call timed
\* out, no VM check or hook raised, no vm.migrate or post_migration raised.
NoFault ==
    /\ broken = {}
    /\ \A t \in Threads :
         /\ orig[t] # "StepError"
         /\ \A i \in 1..NumVMs : wk[t][i] = "failed" => migArg[t][i] = None

\* A step of the run other than a timeout.
NormalStep ==
    \/ \E t \in Threads :
         \/ MigrateWrapEnter(t) \/ Acquire(t) \/ EnvProcessOk(t)
         \/ RegisterVms(t) \/ CheckVms(t) \/ Rel_vms(t) \/ Rel_ports(t)
         \/ BeforeMigrate(t) \/ WorkersJoin(t)
         \/ (\E i \in 1..NumVMs : W_Migrate(t, i) \/ W_Post(t, i))
         \/ Rel_mig_finished(t) \/ PostCheck(t) \/ CheckWork(t)
    \/ \E h \in AllHosts :
         ScenarioMigrate(h) \/ Join(h) \/ Rel_all_test_finished(h)

\* C7: in a two-host, one-VM run of MultihostMigration without cancel
\* delay in which nothing of the environment fails, no thread and no run()
\* gets an error, a thread ends only after it passed mig_finished and ran
\* its post-check, and the run goes on without a timeout until run() has
\* returned on both hosts.
C7_FailureFreeRun ==
    (TwoHostDirect /\ NoFault) =>
        /\ \A t \in Threads :
             /\ ~mig_error[t] /\ exc[t] = "none"
             /\ \A i \in 1..NumVMs : wk[t][i] # "failed"
        /\ \A h \in cfg.hosts : rexc[h] = "none" /\ rpc[h] # "raised"
        /\ \A a \in Started : \A t \in {S(a), D(a)} :
             Ended(t) => /\ Called(a, "mig_finished", cfg.src)
                         /\ Called(a, "mig_finished", cfg.dst)
                         /\ Ran(t, IF t = D(a) THEN "check_vms_dst"
                                               ELSE "check_vms_src")
        /\ (\A h \in cfg.hosts : rpc[h] = "returned") \/ ENABLED NormalStep

C7_Witness ==
    /\ TwoHostDirect /\ NoFault
    /\ \A h \in cfg.hosts : rpc[h] = "returned" /\ rexc[h] = "none"
    /\ Ended(S(1)) /\ Ended(D(1)) /\ Ran(D(1), "check_vms_dst")

\* C8: in a live migration of MultihostMigration, when the source has
\* called vm.migrate for a VM the destination has created its VMs, and the
\* remote_port passed is the migration port of the destination's VM, as
\* the destination published it in a data exchange of the attempt.
C8_PortMapDelivered ==
    (cfg.transport = "base" /\ ~cfg.offline) =>
        \A a \in Started : \A i \in VMs :
            migArg[S(a)][i] # None =>
                /\ created[D(a)] >= 1
                /\ migArg[S(a)][i].remote_port = vmPort[D(a)][i]
                /\ \E m \in msgs :
                     /\ m[1] = a /\ m[3] = cfg.dst /\ m[4].kind = "ports"
                     /\ m[4].ports[i] = migArg[S(a)][i].remote_port

C8_Witness ==
    /\ cfg.transport = "base" /\ ~cfg.offline /\ cfg.nvms = 2
    /\ \A i \in VMs : migArg[S(1)][i] # None
    /\ migArg[S(1)][1].remote_port # migArg[S(1)][2].remote_port

\* Hosts of the run that are neither source nor destination.
Bystanders == cfg.hosts \ {cfg.src, cfg.dst}

\* C9 (as claimed): a bystander calls, and is listed in, no barrier other
\* than those of the whole-run session.
C9_BystanderOnlyWholeRun ==
    \A b \in Bystanders :
        /\ \A x \in arrived : x[4] = b => x[1] = HostsSession
        /\ \A y \in listed : y[3] = b => y[1] = HostsSession

\* C9 (amended): of an attempt's barriers a bystander calls only
\* test_finihed, and the ports exchange of migrate_wait; it is listed only
\* in those and in wait_for_offline_mig and wait2_for_offline_mig; it never
\* calls and is never listed in prepare_VMS, mig_finished or a data
\* exchange of the attempt.
C9_BystanderBarriers ==
    \A b \in Bystanders :
        /\ \A x \in arrived : x[4] = b =>
             \/ x[1] = HostsSession
             \/ x[1] = PortsSession /\ x[2] = "ports"
             \/ x[1] \in Attempts /\ x[2] = "test_finihed"
        /\ \A y \in listed : y[3] = b =>
             \/ y[1] = HostsSession
             \/ y[1] = PortsSession /\ y[2] = "ports"
             \/ y[1] \in Attempts /\ y[2] \in {"test_finihed",
                    "wait_for_offline_mig", "wait2_for_offline_mig"}

C9_Witness ==
    \E b \in Bystanders :
        /\ <<1, "test_finihed", 1, b>> \in arrived
        /\ <<1, "wait_for_offline_mig", b>> \in listed

\* C10 (as claimed): a MigrationData never has both flags set, and its
\* flags never change once it is built.
C10_RoleExclusive ==
    [][\A t \in Threads :
          /\ md'[t].built => ~(md'[t].source /\ md'[t].destination)
          /\ md[t].built => md'[t] = md[t]]_vars

\* C10 (amended): a MigrationData built for a source host other than the
\* destination host never has both flags set, so that its role is one of
\* Source, Destination and Bystander; and the flags of any MigrationData
\* never change once it is built.
C10_RoleExclusiveDistinct ==
    [][\A t \in Threads :
          /\ (md'[t].built /\ md'[t].src # md'[t].dst) =>
                Role(md'[t].source, md'[t].destination)
                    \in {"Source", "Destination", "Bystander"}
          /\ md[t].built => md'[t] = md[t]]_vars

C10_Witness ==
    /\ \E t \in Threads : md[t].built /\ Role(md[t].source, md[t].destination) = "Source"
    /\ \E t \in Threads : md[t].built /\ Role(md[t].source, md[t].destination) = "Destination"
    /\ \E t \in Threads : md[t].built /\ Role(md[t].source, md[t].destination) = "Bystander"
    /\ \E t \in Threads : Ended(t) /\ md[t].built

\* How often t ran the hook, and whether it ran hook f before hook g.
Count(t, hook) == Cardinality({k \in 1..Len(hooks[t]) : hooks[t][k] = hook})
Before(t, f, g) ==
    \A k \in 1..Len(hooks[t]) : \A l \in 1..Len(hooks[t]) :
        (hooks[t][k] = f /\ hooks[t][l] = g) => k < l

\* C11 (as claimed): a source or destination thread whose attempt went
\* through without an error has waited at the mig_finished barrier, the
\* source with the fixed 60 seconds and the other side with mig_timeout.
C11_BothWaitAtFinish ==
    \A a \in Started : \A t \in {S(a), D(a)} :
        (Ended(t) /\ ~mig_error[t] /\ exc[t] = "none") =>
            /\ Called(a, "mig_finished", Host(t))
            /\ FinishTimeout(t) = IF t = S(a) THEN "60" ELSE "self.mig_timeout"

\* C12: migrate_vms_src returns or raises only when every task has
\* finished, and raises exactly when one of them raised; until then a task
\* that has not migrated can migrate and one that migrated can run its
\* post_migration, whatever happened to the other tasks.
C12_WorkersIndependent ==
    [][\A t \in Threads :
          /\ (pc[t] = "workers" /\ pc'[t] # "workers") =>
                /\ \A i \in VMs : wk[t][i] \in {"done", "failed"}
                /\ mig_error'[t] <=> \E i \in VMs : wk[t][i] = "failed"
          /\ pc[t] = "workers" =>
                \A i \in VMs :
                    /\ wk[t][i] = "ready" => ENABLED W_Migrate(t, i)
                    /\ wk[t][i] = "migrated" => ENABLED W_Post(t, i)]_vars

C12_Witness ==
    /\ cfg.nvms = 2 /\ cfg.transport = "exec"
    /\ wk[S(1)][1] = "failed" /\ wk[S(1)][2] = "done"
    /\ migArg[S(1)][1] # None /\ migArg[S(1)][2] # None
    /\ Ended(S(1)) /\ mig_error[S(1)]

\* C13: start_work runs on the source only, at most once, before
\* before_migration and before any vm.migrate; when it is supplied for
\* paused VMs it never runs, no vm.migrate is issued and the source fails.
C13_StartWork ==
    \A t \in Threads :
        /\ Count(t, "start_work") <= 1
        /\ Ran(t, "start_work") => (cfg.start_work /\ md[t].built /\ is_src(t))
        /\ Before(t, "start_work", "before_migration")
        /\ (cfg.start_work /\ md[t].built /\ is_src(t)
              /\ (Ran(t, "before_migration") \/ \E i \in VMs : migArg[t][i] # None))
             => Ran(t, "start_work")
        /\ (cfg.start_work /\ cfg.pause) =>
              /\ ~Ran(t, "start_work")
              /\ \A i \in 1..NumVMs : migArg[t][i] = None
              /\ (Ended(t) /\ is_src(t)) => exc[t] # "none"

C13_Witness ==
    /\ cfg.start_work /\ cfg.pause /\ Ended(S(1)) /\ orig[S(1)] = "TestNAError"
    /\ ~Ran(S(1), "before_migration")

\* env_process.process calls t completed with an incoming migration mode:
\* all but the first one of a thread that is the source.
IncomingCreated(t) ==
    IF md[t].built /\ is_src(t) /\ created[t] >= 1
    THEN created[t] - 1 ELSE created[t]

\* The thread has passed wait2_for_offline_mig.
PastOffline2(t) == pc[t] = "w_mig_finished" \/ PastFinish(t)

\* C14: with host_mig_offline and no cancel delay the destination creates
\* its VMs at most once, only when every host has called
\* wait_for_offline_mig and every worker of the source has finished its
\* migrate and post_migration, and no thread passes wait2_for_offline_mig
\* before the destination has created them.
C14_OfflineDestPrepare ==
    (cfg.offline /\ ~self_cancel_delay) =>
        \A a \in Started :
            /\ IncomingCreated(D(a)) <= 1
            /\ IncomingCreated(D(a)) >= 1 =>
                  /\ \A h \in cfg.hosts : Called(a, "wait_for_offline_mig", h)
                  /\ pc[S(a)] # "workers"
                  /\ \A i \in VMs : wk[S(a)][i] = "done"
            /\ \A t \in {S(a), D(a)} :
                  PastOffline2(t) => IncomingCreated(D(a)) = 1

C14_Witness ==
    /\ cfg.offline /\ ~self_cancel_delay /\ cfg.src # cfg.dst
    /\ IncomingCreated(D(1)) = 1
    /\ Ran(D(1), "check_vms_dst") /\ Ran(S(1), "check_vms_src")

\* C15 (as claimed): when check_work is supplied, a source or destination
\* thread that passed mig_finished and ended without an error has run
\* check_work exactly once, after its check_vms_src / check_vms_dst.
C15_CheckWorkOnce ==
    \A a \in Started : \A t \in {S(a), D(a)} :
        (cfg.check_work /\ Ended(t) /\ exc[t] = "none"
            /\ Called(a, "mig_finished", Host(t))) =>
                /\ Count(t, "check_work") = 1
                /\ Before(t, "check_vms_dst", "check_work")
                /\ Before(t, "check_vms_src", "check_work")

\* C19: in MultihostMigrationRdma, when vm.migrate has been called for a
\* VM of the attempt, the rdma-pin-all command has been issued on the
\* monitor of every VM of the attempt.
C19_PinAllBeforeMigrate ==
    cfg.transport = "rdma" =>
        \A t \in Threads :
            (\E i \in VMs : migArg[t][i] # None \/ wk[t][i] # "none")
                => pinned[t] = VMs

C19_Witness ==
    /\ cfg.transport = "rdma" /\ cfg.nvms = 2
    /\ migArg[S(1)][1] # None /\ migArg[S(1)][2] = None
    /\ pinned[S(1)] = {1, 2}

\* The call of migrate_wait has ended.
MwEnded(cls) == mw.pc = "done" /\ mw.cls = cls

\* C16: when a call of MultihostMigrationFd.migrate_wait has ended, by
\* return or by exception, every socket and every accepted connection it
\* opened is closed.
C16_FdAllClosedAtExit ==
    MwEnded("fd") =>
        /\ \A i \in 1..Len(mw.sockets) : mw.sockets[i] = "closed"
        /\ \A i \in 1..Len(mw.conns) : ~mw.conns[i].open

\* C17: on the host that allocates them the ports of one call are strictly
\* increasing and none is below 5200, so no two VMs share a port.
C17_PortsIncreasing ==
    (mw.pc # "idle" /\ Allocates(mw.cls, mw.hostid, mw.offline)) =>
        /\ \A i \in 1..Len(mw.mig_ports) : mw.mig_ports[i] >= 5200
        /\ \A i, j \in 1..Len(mw.mig_ports) :
              i < j => mw.mig_ports[i] < mw.mig_ports[j]

C17_Witness ==
    /\ mw.pc = "done" /\ ~mw.raised
    /\ mw.cls = "exec" /\ mw.hostid = dsthost
    /\ Len(mw.mig_ports) = 2 /\ mw.mig_ports[2] > mw.mig_ports[1] + 1

\* C18: on the accepting side, once the wrapped migrate_wait has been
\* invoked, there is one descriptor per VM in fds and each had FD_CLOEXEC
\* set when the call was made.
C18_CloexecBeforeSuper ==
    (mw.pc # "idle" /\ Accepting(mw) /\ mw.called) =>
        /\ Len(mw.fds) = mw.vms_count
        /\ \A i \in 1..Len(mw.fds) : mw.fds[i].cloexec

C18_Witness ==
    /\ mw.pc = "in_super" /\ Accepting(mw) /\ mw.vms_count = 2
    /\ Len(mw.fds) = 2 /\ mw.fds[2].cloexec

\* C20: when a call of migrate() with mig_cancel has ended after the
\* monitor reported the cancelled state, migrate and then migrate_cancel
\* were the commands issued, the clone on the same host is destroyed, the
\* source VM is not, nothing was registered, and the call returned vm.
C20_CancelReturnsSource ==
    (mg.pc = "done" /\ mg.mig_cancel /\ mg.cancelled) =>
        /\ mg.cmds = <<"migrate", "migrate_cancel">>
        /\ mg.local => mg.dest_vm = "destroyed"
        /\ mg.vm # "dead"
        /\ ~mg.registered
        /\ mg.result = "return vm"

\* What a call of migrate() ended with.
IsReturn(r) == r \in {"return vm", "return dest_vm"}

IsError(r) == r \in {"TestFail", "MonitorError", "NameError", "UnboundLocalError"}

MgEnded == mg.pc = "done"

\* The call came to "Report migration status" and went through it.
Reported == MgEnded /\ mg.pending = "none" /\ mg.result # "UnboundLocalError"

\* C21: a call with mig_cancel that issued migrate_cancel and ended without
\* a poll having reported the cancelled state ended with an exception, not
\* with a VM, and only after all the polls of the window.
C21_CancelNotSeenFails ==
    (MgEnded /\ mg.mig_cancel /\ Len(mg.cmds) = 2 /\ ~mg.cancelled) =>
        /\ IsError(mg.result)
        /\ mg.polls = MaxPolls

C21_Witness ==
    /\ MgEnded /\ mg.mig_cancel /\ Len(mg.cmds) = 2 /\ ~mg.cancelled
    /\ mg.result = "TestFail" /\ mg.polls = MaxPolls /\ mg.mig = "completed"

\* C22: a call without mig_cancel issues migrate at most once, and when it
\* has ended with a status other than completed it has not returned; having
\* come to the report with such a status it raised TestFail.
C22_ReturnsOnlyIfCompleted ==
    (mg.pc # "idle" /\ ~mg.mig_cancel) =>
        /\ Len(mg.cmds) <= 1
        /\ (MgEnded /\ mg.mig # "completed") => ~IsReturn(mg.result)
        /\ (Reported /\ mg.mig # "completed") => mg.result = "TestFail"

C22_Witness ==
    /\ Reported /\ ~mg.mig_cancel /\ mg.mig = "cancelled"
    /\ mg.cmds = <<"migrate">> /\ mg.result = "TestFail"

\* C23: once a poll of mig_finished has seen the destination VM dead, or the
\* source VM dead in a migration that is not offline, the call polls no
\* more: it is leaving with an exception or has ended with one.
C23_PeerDiedEndsPolling ==
    (mg.pc # "idle" /\ mg.died) =>
        \/ mg.pc = "finally" /\ IsError(mg.pending)
        \/ MgEnded /\ IsError(mg.result)

C23_Witness ==
    /\ MgEnded /\ mg.died /\ mg.polls = 2 /\ mg.result = "TestFail"
    /\ mg.mig = "active"

\* C24: a call on the same host without mig_cancel that went through the
\* report with the status completed destroyed the source VM, left the clone
\* running, registered it when env was given, and returned the clone.
C24_SameHostCompleted ==
    (Reported /\ mg.local /\ ~mg.mig_cancel /\ mg.mig = "completed") =>
        /\ mg.vm = "dead"
        /\ mg.dest_vm = "running"
        /\ mg.env => mg.registered
        /\ mg.result = "return dest_vm"

C24_Witness ==
    /\ Reported /\ mg.local /\ ~mg.mig_cancel /\ mg.mig = "completed"
    /\ mg.stable_check /\ mg.env /\ mg.registered /\ mg.dest_vm = "running"

\* C25: a call with another destination host and without mig_cancel, for
\* which the monitor reports completed, has destroyed the source VM and
\* returned True when it has ended.
C25_MultiHostReturnsTrue ==
    (MgEnded /\ ~mg.local /\ ~mg.mig_cancel /\ mg.mig = "completed") =>
        /\ mg.vm = "dead"
        /\ mg.result = "return True"

\* run() has ended on host h, by return or by exception.
RunEnded(h) == rpc[h] \in {"returned", "raised"}

\* The scenario of host h is over and none of its attempts raised.
ScenarioOk(h) ==
    \A t \in ActiveThreads : Host(t) = h => pc[t] = "ended" /\ exc[t] = "none"

\* The error the scenario of host h raised ("none": none so far).
ScenarioError(h) ==
    IF \E t \in ActiveThreads : Host(t) = h /\ exc[t] # "none"
    THEN exc[CHOOSE t \in ActiveThreads :
               /\ Host(t) = h /\ exc[t] # "none"
               /\ \A u \in ActiveThreads :
                     (Host(u) = h /\ exc[u] # "none") => Att(t) <= Att(u)]
    ELSE "none"

CalledAllFinished(h) == <<HostsSession, "all_test_finished", 1, h>> \in arrived

\* C26: on every host where run() has ended, cleanup and postprocess_env
\* were each done exactly once, and an error of the scenario is the error
\* run() ended with.
C26_PostprocessOnEveryHost ==
    \A h \in cfg.hosts :
        RunEnded(h) =>
            /\ cleaned[h] = 1
            /\ postprocessed(h) = 1
            /\ ScenarioError(h) # "none" => rexc[h] = ScenarioError(h)

\* C27: run() has returned without error on a host only when every host of
\* the run ended its scenario without error and called all_test_finished;
\* a host that called all_test_finished ended its scenario without error.
C27_ReturnAfterAllFinished ==
    \A h \in cfg.hosts :
        /\ rpc[h] = "returned" =>
              \A g \in cfg.hosts : ScenarioOk(g) /\ CalledAllFinished(g)
        /\ CalledAllFinished(h) => ScenarioOk(h)

C27_Witness ==
    /\ rpc[2] = "returned" /\ rpc[1] = "w_all_test_finished"
    /\ ScenarioOk(1) /\ server = "open"

\* Host h still needs the server: run() has not ended on it and it is not
\* at an all_test_finished barrier that everybody has called.
NeedsServer(h) ==
    /\ ~RunEnded(h)
    /\ ~(/\ rpc[h] = "w_all_test_finished"
         /\ Complete(HostsSession, "all_test_finished", 1, RunParts(h)))

\* C28: while a host of the run still has a barrier to call or to be
\* released from, the master's server is open.
C28_ServerLive ==
    server = "closed" => \A h \in cfg.hosts : ~NeedsServer(h)

\* The keys of the mapping an instance of sync resolves with: the hosts
\* that called it.
KeySet(sess, tag, round) ==
    {h \in AllHosts : <<sess, tag, round, h>> \in arrived}

\* The host whose entry thread t takes from the mapping it is released with.
Lookups(t) ==
    IF pc[t] = "w_ports" /\ is_src(t) THEN {PortsFrom(t)}
    ELSE IF pc[t] = "w_vms" /\ ~is_src(t) THEN {md[t].src}
    ELSE {}

\* C29: when every participant a thread named has called the instance it
\* waits at, the hosts that called it are exactly those participants, and
\* the host whose entry the thread reads is one of them; the same for the
\* exchange of migrate_wait and the barrier of run().
C29_KeysAreParticipants ==
    /\ \A t \in ActiveThreads :
          (pc[t] \in TryWaits \cup FinalWaits /\ Resolved(t)) =>
              /\ KeySet(Att(t), WaitTag(t), WaitRound(t)) = WaitParts(t)
              /\ Lookups(t) \subseteq KeySet(Att(t), WaitTag(t), WaitRound(t))
    /\ \A h \in cfg.hosts :
          /\ (rpc[h] = "w_ports" /\ Complete(PortsSession, "ports", cur[h], cfg.hosts))
                => /\ KeySet(PortsSession, "ports", cur[h]) = cfg.hosts
                   /\ cfg.dst \in cfg.hosts
          /\ (/\ rpc[h] = "w_all_test_finished"
              /\ Complete(HostsSession, "all_test_finished", 1, RunParts(h)))
                => KeySet(HostsSession, "all_test_finished", 1) = RunParts(h)

C29_Witness ==
    /\ pc[S(1)] = "w_ports" /\ Resolved(S(1)) /\ cfg.src # cfg.dst
    /\ Contribution(1, nsync[S(1)], PortsFrom(S(1))) # None

\* Thread t is blocked in a barrier or sync call.
Blocked(t) == Active(t) /\ pc[t] \in TryWaits \cup FinalWaits

\* run() or migrate_wait on host h is blocked in a barrier or sync call.
RunBlocked(h) == rpc[h] \in {"w_ports", "w_all_test_finished"}

\* Thread t leaves a call that not all of its participants have made.
LeavesUnresolved(t) == Blocked(t) /\ ~Resolved(t) /\ pc'[t] # pc[t]

\* C30: a thread leaves a barrier that a participant has not called only
\* with a timeout error, and nobody stays blocked in a barrier forever.
C30_BlockedEndsInTimeout ==
    /\ [][\A t \in Threads :
            LeavesUnresolved(t) =>
                \/ orig'[t] = "BarrierTimeout"
                \/ exc'[t] = "BarrierTimeout"]_vars
    /\ <>[](/\ \A t \in Threads : ~Blocked(t)
            /\ \A h \in AllHosts : ~RunBlocked(h))

C30_Witness ==
    /\ cfg.src # cfg.dst /\ pc[D(1)] = "ended" /\ orig[D(1)] = "BarrierTimeout"
    /\ <<1, "data", 1, cfg.src>> \notin arrived
    /\ pc[S(1)] = "ended"

\* C31: the contributions of one round of a session belong to one exchange,
\* and a released caller of a later round reads what its peer contributed
\* in that round: the destination reads a VM configuration in the
\* configuration exchange, the source a port map in the port exchange that
\* follows on the same mig_id, and a migrate_wait call the contributions of
\* its own attempt on the shared 'ports' key.
C31_SecondRoundOnly ==
    /\ \A m, n \in msgs :
          (m[1] = n[1] /\ m[2] = n[2]) => m[4].kind = n[4].kind
    /\ \A t \in ActiveThreads :
          /\ (pc[t] = "w_vms" /\ ~is_src(t) /\ Resolved(t))
                => Contribution(Att(t), nsync[t], md[t].src) = VmsConfig(Att(t))
          /\ (pc[t] = "w_ports" /\ is_src(t) /\ cfg.src # cfg.dst /\ Resolved(t))
                => Contribution(Att(t), nsync[t], PortsFrom(t)).kind = "ports"
    /\ \A h \in cfg.hosts :
          (rpc[h] = "w_ports" /\ Complete(PortsSession, "ports", cur[h], cfg.hosts))
              => \A g \in cfg.hosts :
                    Contribution(PortsSession, cur[h], g).att = cur[h]

C31_Witness ==
    /\ cfg.sync_vms /\ cfg.src # cfg.dst
    /\ pc[S(1)] = "w_ports" /\ nsync[S(1)] = 2 /\ Resolved(S(1))
    /\ Contribution(1, 1, cfg.src).kind = "vms"
    /\ Contribution(1, 2, cfg.dst).kind = "ports"

\* C32: the staging paths generated by one call of
\* MultihostMigrationExec.migrate_wait in offline mode are pairwise
\* distinct, and none is a file that existed in test.tmpdir when the names
\* were generated.
C32_FreshStagingPaths ==
    (mw.pc # "idle" /\ mw.cls = "exec" /\ mw.offline) =>
        /\ \A i, j \in 1..Len(mw.mig_fnam) :
              i # j => mw.mig_fnam[i] # mw.mig_fnam[j]
        /\ \A i \in 1..Len(mw.mig_fnam) : mw.mig_fnam[i] \notin mw.files

\* C35: every connection the source hands to the wrapped migrate_wait of
\* MultihostMigrationFd was opened by the destination host of the attempt.
C35_AcceptedFromDestination ==
    (mw.pc # "idle" /\ mw.cls = "fd" /\ Accepting(mw) /\ mw.called) =>
        \A i \in 1..Len(mw.fds) : mw.fds[i].peer = dsthost

\* C36: no descriptor of a call of MultihostMigrationFd.migrate_wait is
\* closed more than once.
C36_ClosedAtMostOnce ==
    (mw.pc # "idle" /\ mw.cls = "fd") =>
        \A i \in 1..Len(mw.fdcloses) : mw.fdcloses[i] <= 1

\* C37: every socket _connect_to_server has returned is connected, and no
\* socket of a failed attempt is left open.
C37_ConnectedOrRaises ==
    (mw.pc # "idle" /\ mw.cls = "fd" /\ Connecting(mw)) =>
        /\ \A i \in 1..Len(mw.connected) : mw.connected[i]
        /\ mw.lost = 0

\* C33: when a same-host call of migrate() has ended with an exception
\* raised after the clone was created, the clone has been destroyed.
C33_CloneDestroyedOnError ==
    (MgEnded /\ mg.local /\ IsError(mg.result)) => mg.dest_vm = "destroyed"

\* C34: a call of migrate() that has ended with an exception has not
\* destroyed the source VM and has not registered the clone; the source is
\* destroyed and the clone registered only by a call that went through the
\* report with the status completed and returned.
C34_SourceKeptOnError ==
    mg.pc # "idle" =>
        /\ (MgEnded /\ IsError(mg.result)) =>
              (mg.vm # "dead" /\ ~mg.registered)
        /\ (mg.vm = "dead" \/ mg.registered) =>
              (Reported /\ mg.mig = "completed" /\ IsReturn(mg.result))

\* A call ended by the report of a failed migration: the source VM is alive
\* and nothing was registered.
C34_Witness ==
    /\ Reported /\ mg.local /\ mg.env /\ mg.mig = "failed"
    /\ mg.result = "TestFail" /\ mg.vm = "running" /\ ~mg.registered

\* C40: a call of get_session that goes on to open a new login session,
\* no other call being under way, leaves no responsive session in the cache
\* of the VM: with one there it would have returned it.
C40_CachedIfResponsive ==
    \A c \in 1..NumCallers :
        (hp.call[c].pc = "login" /\ hp.call[c].alone) =>
            Elems(hp.sessions) \cap hp.up = {}

\* C39: the cancel_delay a worker of migrate_vms_src gives to vm.migrate is
\* set exactly when the cancel_delay migrate_wrap decides on is set.
C39_SameCancelDelay ==
    \A t \in DOMAIN migArg : \A i \in 1..Len(migArg[t]) :
        migArg[t][i].kind # "None" =>
            (migArg[t][i].cancel_delay <=> SkipFinish)

\* Nothing has failed so far: no step raised, no worker failed, no barrier
\* or data exchange timed out.
FailureFree ==
    /\ broken = {}
    /\ \A t \in Threads : orig[t] = "none" /\ exc[t] = "none"
    /\ \A t \in ActiveThreads : \A i \in VMs : wk[t][i] # "failed"
    /\ \A h \in AllHosts : rexc[h] = "none"

\* Somebody waits in a barrier or data exchange that is not complete.
SomebodyWaits ==
    \/ \E t \in Threads : Blocked(t) /\ ~Resolved(t)
    \/ \E h \in cfg.hosts : RunBlocked(h)

\* C38: in a failure-free run every listed participant of a barrier calls
\* it, so no barrier ends in a timeout: while somebody waits in a barrier
\* or data exchange, the run has a step other than the timeout of a call.
C38_NoTimeoutWithoutFailure ==
    (FailureFree /\ SomebodyWaits) => ENABLED (Next /\ broken' = broken)

====
